---------------------------- MODULE Spec2Model ----------------------------
(***************************************************************************)
(* A state-machine model of the CropCart backend:                          *)
(*   - the blog_posts admin function (src/unnamed/part_000) and the older  *)
(*     blog-post function (src/netlify/functions/blog-post.js), both       *)
(*     talking to one hosted blog_posts table;                             *)
(*   - the file-backed signup endpoints of the express server              *)
(*     (src/backend/server.js, src/unnamed/part_001);                      *)
(*   - the catalog search endpoint;                                        *)
(*   - the client-side farm helpers updateFarm / deleteFarm.               *)
(* Strings are sequences of one-character strings, so that toLowerCase,    *)
(* includes, replace and the regular expressions are computed.             *)
(***************************************************************************)
EXTENDS Integers, Sequences, FiniteSets, TLC

(***************************************************************************)
(* Bounds of the model.                                                    *)
(***************************************************************************)
\* Requests accepted by the blog functions in one run.
MaxRequests == 2
\* Invocations of the blog functions that can be in progress at once.
MaxHandlers == 2
\* Server processes that share one data directory.
MaxServers == 2
\* Submissions the express server accepts in one run.
MaxSubmissions == 3
\* Largest value of the wall clock (Date.now / new Date()).
MaxClock == 2
\* Browsers that use the farm helpers.
MaxClients == 2
\* Calls of the farm helpers in one run.
MaxCalls == 3
\* Runs of the farm seeding script.
MaxRuns == 3

(***************************************************************************)
(* Strings.                                                                *)
(***************************************************************************)
\* JavaScript undefined (an absent field, header or parameter).
Undef == <<"undefined">>
\* JavaScript / SQL null.
Null == <<"null">>
\* The empty string.
Empty == <<>>

UpperChars == <<"A","B","C","D","E","F","G","H","I","J","K","L","M",
                "N","O","P","Q","R","S","T","U","V","W","X","Y","Z">>
LowerChars == <<"a","b","c","d","e","f","g","h","i","j","k","l","m",
                "n","o","p","q","r","s","t","u","v","w","x","y","z">>
DigitChars == <<"0","1","2","3","4","5","6","7","8","9">>

Range(s) == {s[i] : i \in 1..Len(s)}

\* One character of String.prototype.toLowerCase.
LowerChar(c) ==
  IF \E i \in 1..Len(UpperChars) : UpperChars[i] = c
  THEN LowerChars[CHOOSE i \in 1..Len(UpperChars) : UpperChars[i] = c]
  ELSE c

\* String.prototype.toLowerCase.
ToLower(s) == [i \in 1..Len(s) |-> LowerChar(s[i])]

\* Whether pat occurs in s at position i (1-based).
MatchAt(s, pat, i) ==
  /\ i >= 1
  /\ i + Len(pat) - 1 <= Len(s)
  /\ \A k \in 1..Len(pat) : s[i + k - 1] = pat[k]

\* String.prototype.indexOf, 1-based, 0 when pat does not occur.
RECURSIVE IndexFrom(_, _, _)
IndexFrom(s, pat, i) ==
  IF i + Len(pat) - 1 > Len(s) THEN 0
  ELSE IF MatchAt(s, pat, i) THEN i
  ELSE IndexFrom(s, pat, i + 1)

\* String.prototype.includes.
Includes(s, pat) == IndexFrom(s, pat, 1) # 0

\* String.prototype.replace with a string pattern: the first occurrence only.
Replace(s, pat, rep) ==
  LET i == IndexFrom(s, pat, 1)
  IN IF i = 0 THEN s
     ELSE SubSeq(s, 1, i - 1) \o rep \o SubSeq(s, i + Len(pat), Len(s))

\* JavaScript truthiness of a string-or-absent value.
Truthy(v) == v # Undef /\ v # Null /\ v # Empty

\* Names of produce, categories, farms and places used as inputs.
Mango == <<"M","a","n","g","o">>
Yam == <<"Y","a","m">>
Okra == <<"O","k","r","a">>
Fruits == <<"F","r","u","i","t","s">>
Roman == <<"R","o","m","a","n">>
Oma == <<"O","m","a">>
Tako == <<"T","a","k","o">>
Accra == <<"A","c","c","r","a">>
Tamale == <<"T","a","m","a","l","e">>
Herbs == <<"H","e","r","b","s">>

(***************************************************************************)
(* UUIDs.                                                                  *)
(***************************************************************************)
\* [0-9a-f] under the i flag.
IsHex(c) ==
  \/ c \in Range(DigitChars)
  \/ LowerChar(c) \in {"a","b","c","d","e","f"}

\* /^[0-9a-f]{8}-[0-9a-f]{4}-4[0-9a-f]{3}-[89ab][0-9a-f]{3}-[0-9a-f]{12}$/i
\* RegExp.test converts its argument to a string first.
isValidUUID(str) ==
  LET s == IF str = Undef THEN <<"u","n","d","e","f","i","n","e","d">>
           ELSE IF str = Null THEN <<"n","u","l","l">> ELSE str
  IN /\ Len(s) = 36
     /\ \A i \in {9, 14, 19, 24} : s[i] = "-"
     /\ s[15] = "4"
     /\ LowerChar(s[20]) \in {"8","9","a","b"}
     /\ \A i \in (1..36) \ {9, 14, 15, 19, 20, 24} : IsHex(s[i])


\* Ids used as request inputs. U1 and U2 are well-formed v4 UUIDs (U2 in upper
\* case), BadVersion has version digit 1, BadVariant has variant digit c,
\* Short is not 36 characters long.
Hex8 == <<"0","a","1","b","2","c","3","d">>
Hex4 == <<"9","e","8","f">>
Hex12 == Hex8 \o Hex4
Dash == <<"-">>
U1 == Hex8 \o Dash \o Hex4 \o Dash \o <<"4","0","0","1">> \o Dash
         \o <<"8","0","0","1">> \o Dash \o Hex12
U2 == Hex8 \o Dash \o Hex4 \o Dash \o <<"4","A","B","2">> \o Dash
         \o <<"B","0","0","2">> \o Dash \o Hex12
U3 == Hex8 \o Dash \o Hex4 \o Dash \o <<"4","0","0","3">> \o Dash
         \o <<"9","0","0","3">> \o Dash \o Hex12
BadVersion == Hex8 \o Dash \o Hex4 \o Dash \o <<"1","0","0","1">> \o Dash
         \o <<"8","0","0","1">> \o Dash \o Hex12
BadVariant == Hex8 \o Dash \o Hex4 \o Dash \o <<"4","0","0","1">> \o Dash
         \o <<"c","0","0","1">> \o Dash \o Hex12
Short == <<"4","2">>

U4 == Hex8 \o Dash \o Hex4 \o Dash \o <<"4","0","0","4">> \o Dash
         \o <<"a","0","0","4">> \o Dash \o Hex12

\* The ids crypto.randomUUID() and the table's id default can produce here
\* (lower case); U2 is a well-formed id that is never stored.
UuidPool == {U1, U3, U4}

(***************************************************************************)
(* The blog_posts functions: part_000 ("admin") and                        *)
(* netlify/functions/blog-post.js ("legacy").                              *)
(***************************************************************************)
VARIABLES
  env,      \* process.env: [supabase : BOOLEAN, adminKey : string or Undef]
  table,    \* the blog_posts table: id -> row
  issued,   \* ids generated so far
  now,      \* the wall clock
  hs,       \* handler invocations: slot -> invocation record
  nreq      \* requests accepted so far

\* The express server (part_001, backend/server.js) and its data files.
VARIABLES
  smtp,        \* whether SMTP_HOST, SMTP_USER and SMTP_PASS are set
  files,       \* the JSON data files: list name -> array of entries
  srv,         \* server processes: process -> the request it is handling
  mails,       \* the calls of sendEmail so far, with their outcome
  accepted,    \* list name -> number of submissions answered 201
  overlapped,  \* list name -> whether two read-modify-writes of it overlapped
  exported     \* the last answer of GET /api/admin/export/:type

\* The catalog the server loads at start, and the last answer of /api/search.
VARIABLES
  produceData, \* produce.json
  farmsData,   \* farms.json
  searched,    \* the last answer of GET /api/search
  got          \* the last answer of a catalog GET other than the search

\* The browser-side helpers of part_001 (api.updateFarm, api.deleteFarm) and
\* the farms table they act on.
VARIABLES
  farmsTable,  \* the farms table: id -> row
  session,     \* browser -> the id of its signed-in user, Null when signed out
  calls        \* browser -> the helper call it is running

clientVars == <<farmsTable, session, calls>>

\* The last answer of GET /api/admin/stats or GET /api/chat/messages/:sessionId.
VARIABLES
  replied

\* The farm seeding script (part_003) and the farms table it fills.
VARIABLES
  seedFarms,   \* the farms table: "missing", or the rows it holds
  run          \* the run of the script in progress

adminVars == <<replied>>
seedVars == <<seedFarms, run>>
fileVars == <<smtp, files, srv, mails, accepted, overlapped, exported>>
catalogVars == <<produceData, farmsData, searched, got>>

Handlers == 1..MaxHandlers

\* The configured admin secret and the owner tokens callers supply.
AdminKey == <<"k","1">>
OwnerA == <<"A">>
OwnerB == <<"B">>
BearerPrefix == <<"B","e","a","r","e","r"," ">>

\* Statuses the storage service answers with when it refuses a request.
UpstreamFailure == 503
UpstreamConflict == 409
\* The non-2xx statuses the storage answers with.
UpstreamStatuses == {UpstreamConflict, UpstreamFailure}

\* A request body after JSON.parse and destructuring.
Body(id, owner_id, title, category, content, read_time) ==
  [id |-> id, owner_id |-> owner_id, title |-> title, category |-> category,
   content |-> content, read_time |-> read_time]
NoBody == Body(Undef, Undef, Undef, Undef, Undef, Undef)

T1 == <<"t","1">>
T2 == <<"t","2">>

\* What a request carries: endpoint, method, Authorization header, body; for
\* GET the id field of the body stands for the id query parameter.
Request(ep, method, auth, body) ==
  [ep |-> ep, method |-> method, auth |-> auth, body |-> body]

AuthInputs == {Undef, BearerPrefix \o AdminKey, BearerPrefix \o <<"z","z">>, AdminKey}
IdInputs == {Undef, Empty, U1, U2, BadVersion, BadVariant, Short}
OwnerInputs == {Undef, OwnerA, OwnerB}

ValidIdInputs == {i \in IdInputs : Truthy(i) /\ isValidUUID(i)}

\* isValidUUID and verifyAdminAuth over the inputs of the model, computed once.
validUUID == [i \in IdInputs |-> isValidUUID(i)]

PostBodies ==
  {Body(Undef, OwnerA, T1, T1, T1, Undef),
   Body(Undef, Undef, T1, T1, T1, <<"5">>),
   Body(Undef, OwnerA, Undef, T1, T1, Undef),
   Body(Undef, Undef, T1, T1, Empty, Undef)}
\* Every owner with every well-formed id; the ill-formed ids with owner B.
PutBodies ==
  {Body(i, o, T2, Undef, Undef, Undef) : i \in ValidIdInputs, o \in OwnerInputs}
    \cup {Body(i, OwnerB, T2, Undef, Undef, Undef) : i \in IdInputs \ ValidIdInputs}
    \cup {Body(U1, OwnerA, Undef, T2, Empty, <<"5">>)}
DeleteBodies ==
  {Body(i, o, Undef, Undef, Undef, Undef) : i \in ValidIdInputs, o \in OwnerInputs}
    \cup {Body(i, OwnerB, Undef, Undef, Undef, Undef) : i \in IdInputs \ ValidIdInputs}
GetBodies ==
  {Body(i, Undef, Undef, Undef, Undef, Undef) : i \in IdInputs}

\* The requests the model sends. A request refused for its credentials is
\* sent with one representative body per method.
Requests ==
  LET good == BearerPrefix \o AdminKey
      Rep(m) == CASE m = "POST" -> Body(Undef, OwnerA, T1, T1, T1, Undef)
                  [] m = "PUT" -> Body(U1, OwnerB, T2, Undef, Undef, Undef)
                  [] m = "DELETE" -> Body(U1, Undef, Undef, Undef, Undef, Undef)
                  [] OTHER -> NoBody
  IN {Request("admin", "POST", good, b) : b \in PostBodies}
       \cup {Request("admin", "PUT", good, b) : b \in PutBodies}
       \cup {Request("admin", "DELETE", good, b) : b \in DeleteBodies}
       \cup {Request("admin", "GET", Undef, b) : b \in GetBodies}
       \cup {Request("admin", m, a, Rep(m)) :
               m \in {"POST", "PUT", "DELETE"}, a \in AuthInputs \ {good}}
       \cup {Request("admin", m, Undef, NoBody) : m \in {"OPTIONS", "PATCH"}}
       \cup {Request("admin", "POST", Undef, Body(Undef, OwnerA, Undef, T1, T1, Undef)),
             Request("admin", "PUT", BearerPrefix \o <<"z","z">>,
                     Body(Short, OwnerB, T2, Undef, Undef, Undef))}
       \cup {Request("legacy", "POST", Undef, b) : b \in PostBodies}
       \cup {Request("legacy", "DELETE", Undef, b) :
               b \in {Body(i, Undef, Undef, Undef, Undef, Undef) :
                        i \in {Undef, U1, BadVersion, Short}}}
       \cup {Request("legacy", m, Undef, Rep(m)) : m \in {"OPTIONS", "GET", "PUT"}}
AdminRequests == {r \in Requests : r.ep = "admin"}
LegacyRequests == {r \in Requests : r.ep = "legacy"}

\* A stored row.
Row(id, owner_id, title, category, content, read_time, created_at, updated_at) ==
  [id |-> id, owner_id |-> owner_id, title |-> title, category |-> category,
   content |-> content, read_time |-> read_time, created_at |-> created_at,
   updated_at |-> updated_at]
NoRow == Row(Undef, Undef, Undef, Undef, Undef, Undef, 0, 0)

\* An invocation. pc: "idle", "lookup", "insert", "patch", "delete", "read"
\* (a storage request is in flight), "done". reqs lists the storage requests
\* issued, lookup the outcome of the ownership lookup, payload the JSON sent
\* with the insert or the PATCH, hit the row as it was when the PATCH or DELETE
\* of this invocation changed it (NoRow when it changed none).
Idle ==
  [pc |-> "idle", req |-> Request("admin", "OPTIONS", Undef, NoBody), status |-> 0,
   reqs |-> <<>>, lookup |-> "none", payload |-> NoRow, hit |-> NoRow,
   last |-> "none", upstream |-> 0]

\* verifyAdminAuth.
verifyAdminAuth(authHeader, adminKey) ==
  IF ~Truthy(authHeader) THEN FALSE
  ELSE LET token == Replace(authHeader, BearerPrefix, Empty)
       IN ~(~Truthy(adminKey) \/ token # adminKey)


\* An invocation that has answered.
Done(inv, status) == [inv EXCEPT !.pc = "done", !.status = status]

\* An invocation that has sent a storage request and awaits the answer.
Issue(inv, kind) == [inv EXCEPT !.pc = kind, !.reqs = Append(@, kind)]

\* The row POST sends (part_000 lines 84-93).
insertPayload(b, id, t) ==
  Row(id, IF Truthy(b.owner_id) THEN b.owner_id ELSE Null, b.title, b.category,
      b.content, IF Truthy(b.read_time) THEN b.read_time ELSE Null, t, t)

\* The row the older function's POST sends (blog-post.js lines 41-47): no id,
\* no owner_id, no updated_at.
legacyInsertPayload(b, t) ==
  Row(Undef, Undef, b.title, b.category, b.content,
      IF Truthy(b.read_time) THEN b.read_time ELSE Null, t, 0)

\* The JSON PUT sends with its PATCH (part_000 lines 141-147); Undef is an
\* absent key.
updatePayload(b, t) ==
  Row(Undef, Undef,
      IF Truthy(b.title) THEN b.title ELSE Undef,
      IF Truthy(b.category) THEN b.category ELSE Undef,
      IF Truthy(b.content) THEN b.content ELSE Undef,
      b.read_time, 0, t)

\* The auth gate of part_000 (lines 57-66): TRUE when the request is refused.
authRefused_KeyOptional(req, e) ==
  /\ req.method \in {"POST", "PUT", "DELETE"}
  /\ Truthy(e.adminKey)
  /\ ~verifyAdminAuth(req.auth, e.adminKey)
authRefused(req, e) ==
  /\ req.method \in {"POST", "PUT", "DELETE"}
  /\ ~verifyAdminAuth(req.auth, e.adminKey)

\* PUT and DELETE of part_000: the id checks (lines 113-120, 167-174); TRUE
\* when the request is answered 400.
idRejected(id) == ~Truthy(id) \/ ~validUUID[id]

\* Whether PUT and DELETE look the owner up before they write (part_000
\* lines 123 and 177).
needsLookup_Never(owner_id) == FALSE
needsLookup(owner_id) == Truthy(owner_id)

\* part_000's handler up to its first await (or its answer).
adminBegin(req, e, t, newId) ==
  LET b == req.body
      inv == [Idle EXCEPT !.req = req]
  IN IF req.method = "OPTIONS" THEN Done(inv, 200)
     ELSE IF ~e.supabase THEN Done(inv, 500)
     ELSE IF authRefused(req, e) THEN Done(inv, 401)
     ELSE IF req.method = "POST" THEN
       IF ~Truthy(b.title) \/ ~Truthy(b.category) \/ ~Truthy(b.content)
       THEN Done(inv, 400)
       ELSE Issue([inv EXCEPT !.payload = insertPayload(b, newId, t)], "insert")
     ELSE IF req.method = "PUT" THEN
       IF idRejected(b.id) THEN Done(inv, 400)
       ELSE IF needsLookup(b.owner_id) THEN Issue(inv, "lookup")
       ELSE Issue([inv EXCEPT !.payload = updatePayload(b, t)], "patch")
     ELSE IF req.method = "DELETE" THEN
       IF idRejected(b.id) THEN Done(inv, 400)
       ELSE IF needsLookup(b.owner_id) THEN Issue(inv, "lookup")
       ELSE Issue(inv, "delete")
     ELSE IF req.method = "GET" THEN
       IF Truthy(b.id) /\ ~validUUID[b.id] THEN Done(inv, 400)
       ELSE Issue(inv, "read")
     ELSE Done(inv, 405)

\* blog-post.js's handler up to its first await (or its answer).
legacyBegin(req, e, t) ==
  LET b == req.body
      inv == [Idle EXCEPT !.req = req]
  IN IF req.method = "OPTIONS" THEN Done(inv, 200)
     ELSE IF ~e.supabase THEN Done(inv, 500)
     ELSE IF req.method = "POST" THEN
       IF ~Truthy(b.title) \/ ~Truthy(b.category) \/ ~Truthy(b.content)
       THEN Done(inv, 400)
       ELSE Issue([inv EXCEPT !.payload = legacyInsertPayload(b, t)], "insert")
     ELSE IF req.method = "DELETE" THEN
       IF ~Truthy(b.id) THEN Done(inv, 400)
       ELSE Issue(inv, "delete")
     ELSE Done(inv, 405)

\* The rows `id=eq.<id>` selects.
Matching(tbl, id) == IF id \in DOMAIN tbl THEN <<tbl[id]>> ELSE <<>>

\* The ownership test of PUT and DELETE (part_000 lines 129-131, 183-185):
\* ok is checkResponse.ok, existingPosts the parsed answer.
ownershipDenied_FailClosed(ok, existingPosts, owner_id) ==
  \/ ~ok
  \/ /\ Len(existingPosts) > 0
     /\ Truthy(existingPosts[1].owner_id)
     /\ existingPosts[1].owner_id # owner_id
ownershipDenied(ok, existingPosts, owner_id) ==
  /\ ok
  /\ Len(existingPosts) > 0
  /\ Truthy(existingPosts[1].owner_id)
  /\ existingPosts[1].owner_id # owner_id

\* What a PATCH with payload p makes of a row.
applyPatch_Replace(row, p) == [p EXCEPT !.id = row.id]
applyPatch(row, p) ==
  [row EXCEPT !.title = IF p.title # Undef THEN p.title ELSE @,
              !.category = IF p.category # Undef THEN p.category ELSE @,
              !.content = IF p.content # Undef THEN p.content ELSE @,
              !.read_time = IF p.read_time # Undef THEN p.read_time ELSE @,
              !.updated_at = p.updated_at]

\* The answers of a storage request: a 2xx response, a non-2xx response, or
\* fetch rejecting (no response), which the handler's catch turns into 500.
Outcomes == {"ok", "non2xx", "throw"}

blogVars == <<env, table, issued, hs>>

\* A free slot: never used, or its invocation has answered. A new invocation
\* takes the first free slot.
Free(h) ==
  /\ hs[h].pc \in {"idle", "done"}
  /\ \A g \in Handlers : hs[g].pc \in {"idle", "done"} => h <= g

\* A request arrives at part_000.
AdminStart(h) ==
  /\ Free(h)
  /\ nreq < MaxRequests
  /\ \E req \in AdminRequests, newId \in (UuidPool \ issued) \cup {Undef} :
       LET inv == adminBegin(req, env, now, newId)
       IN /\ (inv.pc = "insert") <=> (newId # Undef)
          /\ hs' = [hs EXCEPT ![h] = inv]
          /\ issued' = IF newId # Undef THEN issued \cup {newId} ELSE issued
  /\ nreq' = nreq + 1
  /\ UNCHANGED <<env, table, now>>
  /\ UNCHANGED <<fileVars, catalogVars, clientVars, adminVars, seedVars>>

\* A request arrives at blog-post.js.
LegacyStart(h) ==
  /\ Free(h)
  /\ nreq < MaxRequests
  /\ \E req \in LegacyRequests :
       hs' = [hs EXCEPT ![h] = legacyBegin(req, env, now)]
  /\ nreq' = nreq + 1
  /\ UNCHANGED <<env, table, issued, now>>
  /\ UNCHANGED <<fileVars, catalogVars, clientVars, adminVars, seedVars>>

\* The ownership lookup is answered and the handler runs on to its next await
\* (part_000 lines 124-153 and 178-198).
Lookup(h) ==
  /\ hs[h].pc = "lookup"
  /\ \E out \in Outcomes :
       LET inv == [hs[h] EXCEPT !.lookup = out]
           b == inv.req.body
       IN hs' = [hs EXCEPT ![h] =
            IF out = "throw" THEN Done(inv, 500)
            ELSE IF ownershipDenied(out = "ok", Matching(table, b.id), b.owner_id)
            THEN Done(inv, 403)
            ELSE IF inv.req.method = "PUT"
            THEN Issue([inv EXCEPT !.payload = updatePayload(b, now)], "patch")
            ELSE Issue(inv, "delete")]
  /\ UNCHANGED <<env, table, issued, now, nreq>>
  /\ UNCHANGED <<fileVars, catalogVars, clientVars, adminVars, seedVars>>

\* The status a handler answers with once the storage has answered its last
\* request: success when the answer was 2xx, else the upstream status.
answerStatus_ServerError(out, S, success) == IF out = "ok" THEN success ELSE 500
answerStatus(out, S, success) ==
  IF out = "throw" THEN 500 ELSE IF out = "ok" THEN success ELSE S

\* The storage's answers to the last request of a handler: the outcome and,
\* when it is non-2xx, the status.
LastAnswers ==
  {<<out, S>> \in Outcomes \X (UpstreamStatuses \cup {0}) : (out = "non2xx") <=> (S # 0)}

\* The invocation answers after the storage answered its last request with
\* outcome out and status S (last and upstream keep them).
Answered(inv, out, S, success) ==
  Done([inv EXCEPT !.last = out, !.upstream = S], answerStatus(out, S, success))

\* The insert is answered (part_000 lines 95-106, blog-post.js lines 49-60).
\* For the older function the table's default provides the id.
Insert(h) ==
  /\ hs[h].pc = "insert"
  /\ \E a \in LastAnswers, dbId \in (UuidPool \ issued) \cup {Undef} :
       LET inv == hs[h]
           out == a[1]
           legacy == inv.req.ep = "legacy"
           id == IF legacy THEN dbId ELSE inv.payload.id
           row == [inv.payload EXCEPT !.id = id,
                     !.owner_id = IF legacy THEN Null ELSE @]
       IN /\ (out = "ok" /\ legacy) <=> (dbId # Undef)
          /\ table' = IF out = "ok"
                      THEN [i \in DOMAIN table \cup {id} |->
                              IF i = id THEN row ELSE table[i]]
                      ELSE table
          /\ issued' = IF dbId # Undef THEN issued \cup {dbId} ELSE issued
          /\ hs' = [hs EXCEPT ![h] =
                      Answered(inv, out, a[2], IF legacy THEN 200 ELSE 201)]
  /\ UNCHANGED <<env, now, nreq>>
  /\ UNCHANGED <<fileVars, catalogVars, clientVars, adminVars, seedVars>>

\* The PATCH is answered (part_000 lines 149-160).
Patch(h) ==
  /\ hs[h].pc = "patch"
  /\ \E a \in LastAnswers :
       LET inv == hs[h]
           out == a[1]
           id == inv.req.body.id
           hit == out = "ok" /\ id \in DOMAIN table
       IN /\ table' = IF hit
                      THEN [table EXCEPT ![id] = applyPatch(@, inv.payload)]
                      ELSE table
          /\ hs' = [hs EXCEPT ![h] =
                      Answered([inv EXCEPT !.hit = IF hit THEN table[id] ELSE NoRow],
                               out, a[2], 200)]
  /\ UNCHANGED <<env, issued, now, nreq>>
  /\ UNCHANGED <<fileVars, catalogVars, clientVars, adminVars, seedVars>>

\* The DELETE is answered (part_000 lines 195-205, blog-post.js lines 69-79).
Delete(h) ==
  /\ hs[h].pc = "delete"
  /\ \E a \in LastAnswers :
       LET inv == hs[h]
           out == a[1]
           id == inv.req.body.id
           hit == out = "ok" /\ id \in DOMAIN table
       IN /\ table' = IF hit
                      THEN [i \in DOMAIN table \ {id} |-> table[i]]
                      ELSE table
          /\ hs' = [hs EXCEPT ![h] =
                      Answered([inv EXCEPT !.hit = IF hit THEN table[id] ELSE NoRow],
                               out, a[2], 200)]
  /\ UNCHANGED <<env, issued, now, nreq>>
  /\ UNCHANGED <<fileVars, catalogVars, clientVars, adminVars, seedVars>>

\* The read is answered (part_000 lines 222-232).
Read(h) ==
  /\ hs[h].pc = "read"
  /\ \E a \in LastAnswers :
       hs' = [hs EXCEPT ![h] = Answered(hs[h], a[1], a[2], 200)]
  /\ UNCHANGED <<env, table, issued, now, nreq>>
  /\ UNCHANGED <<fileVars, catalogVars, clientVars, adminVars, seedVars>>

\* Time passes.
Tick ==
  /\ now < MaxClock
  /\ now' = now + 1
  /\ UNCHANGED <<env, table, issued, hs, nreq>>
  /\ UNCHANGED <<fileVars, catalogVars, clientVars, adminVars, seedVars>>

\* A post created earlier by POST with owner_id A at time 1.
SeedRow == Row(U1, OwnerA, T1, T1, T1, Null, 1, 1)

BlogInit ==
  /\ env \in {[supabase |-> TRUE, adminKey |-> AdminKey],
              [supabase |-> TRUE, adminKey |-> Undef],
              [supabase |-> FALSE, adminKey |-> AdminKey]}
  /\ \E seeded \in BOOLEAN :
       /\ table = IF seeded THEN [i \in {U1} |-> SeedRow] ELSE <<>>
       /\ issued = IF seeded THEN {U1} ELSE {}
  /\ hs = [h \in Handlers |-> Idle]

BlogNext ==
  \/ \E h \in Handlers : AdminStart(h)
  \/ \E h \in Handlers : LegacyStart(h)
  \/ \E h \in Handlers : Lookup(h)
  \/ \E h \in Handlers : Insert(h)
  \/ \E h \in Handlers : Patch(h)
  \/ \E h \in Handlers : Delete(h)
  \/ \E h \in Handlers : Read(h)
  \/ Tick

vars == <<blogVars, now, nreq, fileVars, catalogVars, clientVars, adminVars, seedVars>>

(***************************************************************************)
(* The file-backed signup endpoints of the express server: POST            *)
(* /api/waitlist, /api/newsletter and /api/early-access (part_001 lines    *)
(* 700-837; backend/server.js lines 278-356 are the same handlers without  *)
(* the notification email and without early access).  A handler runs       *)
(* without yielding, so inside one process handlers do not interleave; two *)
(* server processes started on the same data directory interleave between  *)
(* the readFileSync of loadJSON and the writeFileSync of saveJSON.         *)
(***************************************************************************)
Servers == 1..MaxServers
Lists == {"waitlist", "newsletter", "early", "applications", "chat"}
\* The lists whose handler looks for the email among the stored entries.
DedupLists == {"waitlist", "newsletter", "early"}

E1 == <<"a","@","x",".","c">>
E1Upper == <<"A","@","X",".","c">>
E2 == <<"b","@","x",".","c">>
NoAt == <<"a","x",".","c">>
NoDot == <<"a","@","x">>
Spaced == <<"a"," ","@","x",".","c">>
N1 == <<"n","1">>

\* /^[^\s@]+@[^\s@]+\.[^\s@]+$/ .test(email)
emailRegexTest(email) ==
  /\ \A i \in 1..Len(email) : email[i] \notin {" ", "\t", "\n", "\r"}
  /\ Cardinality({i \in 1..Len(email) : email[i] = "@"}) = 1
  /\ LET at == CHOOSE i \in 1..Len(email) : email[i] = "@"
     IN /\ at >= 2
        /\ \E j \in (at + 2)..(Len(email) - 1) : email[j] = "."

\* A submission: req.body of a POST to the endpoint of `list`.
Signup(list, email, name, businessType, location) ==
  [list |-> list, email |-> email, name |-> name,
   businessType |-> businessType, location |-> location,
   farmName |-> Undef, farmSize |-> Undef, specialties |-> Undef,
   contactName |-> Undef, phone |-> Undef, experience |-> Undef,
   sessionId |-> Undef, userMessage |-> Undef]

\* req.body of a POST /api/farm-applications.
Application(email, location, farmName, farmSize, phone) ==
  [Signup("applications", email, Undef, Undef, location) EXCEPT
     !.farmName = farmName, !.farmSize = farmSize, !.specialties = Herbs,
     !.contactName = N1, !.phone = phone, !.experience = <<"5">>]

\* req.body of a POST /api/chat/messages.
ChatMessage(sessionId, userMessage) ==
  [Signup("chat", Undef, Undef, Undef, Undef) EXCEPT
     !.sessionId = sessionId, !.userMessage = userMessage]

Signups ==
  {Signup("waitlist", e, Undef, Undef, Undef) : e \in {Undef, E1, E1Upper, E2, NoAt}}
    \cup {Signup("newsletter", e, Undef, Undef, Undef) : e \in {E1, E1Upper, NoDot}}
    \cup {Signup("early", e, N1, N1, N1) : e \in {E1, E1Upper, Spaced}}
    \cup {Signup("early", E1, Undef, N1, N1)}
    \cup {Application(E1, Accra, Oma, <<"1","2">>, N1),
          Application(E1, Accra, Oma, <<"1","2">>, Empty)}
    \cup {ChatMessage(N1, Herbs), ChatMessage(N1, Empty)}

\* x || ''
OrEmpty(x) == IF Truthy(x) THEN x ELSE Empty

\* The required-field test of each endpoint (part_001 lines 703, 747, 795):
\* TRUE when the request is answered 400 "required".
missingFields_EmailOnly(req) == ~Truthy(req.email)
missingFields(req) ==
  IF req.list = "early"
  THEN ~Truthy(req.email) \/ ~Truthy(req.name) \/ ~Truthy(req.businessType)
         \/ ~Truthy(req.location)
  ELSE IF req.list = "applications"
  THEN ~Truthy(req.farmName) \/ ~Truthy(req.location) \/ ~Truthy(req.farmSize)
         \/ ~Truthy(req.specialties) \/ ~Truthy(req.contactName)
         \/ ~Truthy(req.phone) \/ ~Truthy(req.email) \/ ~Truthy(req.experience)
  ELSE IF req.list = "chat"
  THEN ~Truthy(req.sessionId) \/ ~Truthy(req.userMessage)
  ELSE ~Truthy(req.email)

\* The duplicate test (part_001 lines 715, 759, 806).
isDuplicate_CaseSensitive(list, email) ==
  \E i \in 1..Len(list) : list[i].email = email
isDuplicate(list, email) ==
  \E i \in 1..Len(list) : ToLower(list[i].email) = ToLower(email)

\* parseInt(s): the number written by the leading digits of s, -1 for NaN.
DigitValue(c) == CHOOSE d \in 0..9 : DigitChars[d + 1] = c
RECURSIVE parseDigits(_, _)
parseDigits(s, acc) ==
  IF s = <<>> \/ Head(s) \notin Range(DigitChars) THEN acc
  ELSE parseDigits(Tail(s), acc * 10 + DigitValue(Head(s)))
parseInt(s) ==
  IF s = <<>> \/ Head(s) \notin Range(DigitChars) THEN -1 ELSE parseDigits(s, 0)

\* The entry each endpoint appends (part_001 lines 719-724, 763-771, 810-819);
\* the id is the list's prefix and Date.now().
newEntry(req, t) ==
  IF req.list = "applications"
  THEN [id |-> <<req.list, t>>, email |-> req.email, farmName |-> req.farmName,
        location |-> req.location, farmSize |-> parseInt(req.farmSize),
        phone |-> req.phone, status |-> "pending", at |-> t]
  ELSE IF req.list = "chat"
  THEN [id |-> <<req.list, t>>, sessionId |-> req.sessionId,
        userMessage |-> req.userMessage, botResponse |-> Empty, at |-> t]
  ELSE IF req.list = "waitlist"
  THEN [id |-> <<req.list, t>>, email |-> req.email, name |-> OrEmpty(req.name),
        businessType |-> OrEmpty(req.businessType),
        location |-> OrEmpty(req.location), newsletterConsent |-> FALSE, at |-> t]
  ELSE [id |-> <<req.list, t>>, email |-> req.email, name |-> OrEmpty(req.name),
        businessType |-> OrEmpty(req.businessType),
        location |-> OrEmpty(req.location), at |-> t]

\* loadJSON: the parsed file, [] when the file does not exist.
loadJSON_Default(content) == <<>>
loadJSON(content) == content

\* The answer after saveJSON returned `saved` and sendEmail was called with
\* outcome `mail` (part_001 lines 728-740, 775-788, 823-836).
signupAnswer_MailRequired(saved, mail) == IF saved /\ mail # "disabled" THEN 201 ELSE 500
signupAnswer(saved, mail) == IF saved THEN 201 ELSE 500

\* sendEmail up to its first await (part_001 lines 405-415): without SMTP
\* credentials createTransporter returns null and nothing is sent.
sendEmailBegin(smtpSet) == IF smtpSet THEN "pending" ELSE "disabled"

\* A process with no request in hand. pc: "idle", "save" (the list was read
\* and the entry appended in memory; the write is next), "done".
Resting ==
  [pc |-> "idle", req |-> Signup("waitlist", Undef, Undef, Undef, Undef),
   local |-> <<>>, status |-> 0, position |-> 0, dupSeen |-> FALSE, mail |-> 0]

\* waitlist.push(entry)
push_Front(list, entry) == <<entry>> \o list
push(list, entry) == Append(list, entry)

\* A handler up to the writeFileSync of saveJSON (or its answer).
signupBegin(req, content, t) ==
  LET inv == [Resting EXCEPT !.req = req]
      list == loadJSON(content)
  IN IF missingFields(req) THEN [inv EXCEPT !.pc = "done", !.status = 400]
     ELSE IF req.list # "chat" /\ ~emailRegexTest(req.email) THEN [inv EXCEPT !.pc = "done", !.status = 400]
     ELSE IF req.list \in DedupLists /\ isDuplicate(list, req.email)
     THEN [inv EXCEPT !.pc = "done", !.status = 400, !.dupSeen = TRUE]
     ELSE [inv EXCEPT !.pc = "save", !.local = push(list, newEntry(req, t))]

\* A POST with a body of reqs arrives at process p and runs up to the write.
SubmitFrom(p, reqs) ==
  /\ srv[p].pc \in {"idle", "done"}
  /\ nreq < MaxSubmissions
  /\ \E req \in reqs :
       LET inv == signupBegin(req, files[req.list], now)
       IN /\ srv' = [srv EXCEPT ![p] = inv]
          /\ overlapped' = [overlapped EXCEPT ![req.list] =
               @ \/ (inv.pc = "save" /\ \E q \in Servers \ {p} :
                       srv[q].pc = "save" /\ srv[q].req.list = req.list)]
  /\ nreq' = nreq + 1
  /\ UNCHANGED <<smtp, files, mails, accepted, now>>
  /\ UNCHANGED <<env, table, issued, hs, catalogVars, exported, clientVars, adminVars, seedVars>>

\* Whether the handler of `list` calls sendEmail: inside `if (saveJSON(...))`
\* (part_001 lines 683-684, 728-729, 775-776, 823-824); the chat handler has
\* no such call.
notifies_Always(list, saved) == list # "chat"
notifies(list, saved) == saved /\ list # "chat"

\* A POST arrives at process p and runs up to the write.
Submit(p) == SubmitFrom(p, Signups)

\* position: waitlist.length (part_001 lines 784, 832); the other endpoints
\* return no position.
positionOf_Index(list, local) ==
  IF list \in {"waitlist", "early"} THEN Len(local) - 1 ELSE 0
positionOf(list, local) ==
  IF list \in {"waitlist", "early"} THEN Len(local) ELSE 0

\* saveJSON writes the file (or fails), sendEmail is called (the chat handler
\* sends no email) and the answer is sent.
Save(p) ==
  /\ srv[p].pc = "save"
  /\ \E saved \in BOOLEAN :
       LET inv == srv[p]
           l == inv.req.list
           mail == sendEmailBegin(smtp)
           notified == notifies(l, saved)
       IN /\ files' = IF saved THEN [files EXCEPT ![l] = inv.local] ELSE files
          /\ mails' = IF notified
                      THEN Append(mails, [list |-> l, email |-> inv.req.email,
                                          state |-> mail])
                      ELSE mails
          /\ accepted' = IF signupAnswer(saved, mail) = 201
                         THEN [accepted EXCEPT ![l] = @ + 1] ELSE accepted
          /\ srv' = [srv EXCEPT ![p] =
               [inv EXCEPT !.pc = "done",
                           !.status = signupAnswer(saved, mail),
                           !.position = IF saved THEN positionOf(l, inv.local)
                                        ELSE 0,
                           !.mail = IF notified THEN Len(mails) + 1 ELSE 0]]
  /\ UNCHANGED <<smtp, overlapped, now, nreq>>
  /\ UNCHANGED <<env, table, issued, hs, catalogVars, exported, clientVars, adminVars, seedVars>>

\* mailTransporter.sendMail settles: delivered, or rejected and logged
\* (part_001 lines 414-424).
MailSettle(i) ==
  /\ i \in 1..Len(mails)
  /\ mails[i].state = "pending"
  /\ \E out \in {"sent", "failed"} : mails' = [mails EXCEPT ![i].state = out]
  /\ UNCHANGED <<smtp, files, srv, accepted, overlapped, now, nreq>>
  /\ UNCHANGED <<env, table, issued, hs, catalogVars, exported, clientVars, adminVars, seedVars>>

\* The answer of an export.
Export(type, status, text) == [asked |-> TRUE, type |-> type, status |-> status, text |-> text]
NoExport == [asked |-> FALSE, type |-> "none", status |-> 0, text |-> <<>>]

FileInit ==
  /\ smtp \in BOOLEAN
  /\ files = [l \in Lists |-> <<>>]
  /\ srv = [p \in Servers |-> Resting]
  /\ mails = <<>>
  /\ accepted = [l \in Lists |-> 0]
  /\ overlapped = [l \in Lists |-> FALSE]
  /\ exported = NoExport

\* The express server at rest (the blog functions run alone).
FileQuiet ==
  /\ smtp = FALSE
  /\ files = [l \in Lists |-> <<>>]
  /\ srv = [p \in Servers |-> Resting]
  /\ mails = <<>>
  /\ accepted = [l \in Lists |-> 0]
  /\ overlapped = [l \in Lists |-> FALSE]
  /\ exported = NoExport

\* The blog functions at rest.
BlogQuiet ==
  /\ env = [supabase |-> TRUE, adminKey |-> AdminKey]
  /\ table = <<>>
  /\ issued = {}
  /\ hs = [h \in Handlers |-> Idle]

FileNext ==
  \/ \E p \in Servers : Submit(p)
  \/ \E p \in Servers : Save(p)
  \/ \E i \in 1..MaxSubmissions : MailSettle(i)
  \/ Tick

(***************************************************************************)
(* The CSV export, GET /api/admin/export/:type (part_001 lines 867-894).   *)
(***************************************************************************)
Comma == ","
Newline == "\n"
DQuote == "\""

\* The column names.
Hid == <<"i","d">>
Hname == <<"n","a","m","e">>
Hemail == <<"e","m","a","i","l">>
HbusinessType == <<"b","u","s","i","n","e","s","s","T","y","p","e">>
Hlocation == <<"l","o","c","a","t","i","o","n">>
Hphone == <<"p","h","o","n","e">>
Hnotes == <<"n","o","t","e","s">>
HnewsletterConsent == <<"n","e","w","s","l","e","t","t","e","r","C","o","n","s","e","n","t">>
Hposition == <<"p","o","s","i","t","i","o","n">>
HcreatedAt == <<"c","r","e","a","t","e","d","A","t">>
HrequestedAt == <<"r","e","q","u","e","s","t","e","d","A","t">>

\* sources[type].headers; <<>> for a type that has no source.
headersOf(type) ==
  IF type = "waitlist"
  THEN <<Hid, Hname, Hemail, HbusinessType, Hlocation, Hphone, Hnotes,
         HnewsletterConsent, Hposition, HcreatedAt>>
  ELSE IF type = "early"
  THEN <<Hid, Hname, Hemail, HbusinessType, Hlocation, Hphone, Hnotes, HrequestedAt>>
  ELSE IF type = "newsletter" THEN <<Hid, Hemail, HcreatedAt>>
  ELSE <<>>

\* The decimal digits of a natural number.
RECURSIVE decimal(_)
decimal(n) ==
  IF n < 10 THEN <<DigitChars[n + 1]>>
  ELSE decimal(n \div 10) \o <<DigitChars[(n % 10) + 1]>>

\* The id as the string the template literal builds: prefix, "_", Date.now().
idPrefix(list) ==
  IF list = "waitlist" THEN <<"w","a","i","t","_">>
  ELSE IF list = "newsletter" THEN <<"s","u","b","_">>
  ELSE IF list = "early" THEN <<"e","a","_">>
  ELSE IF list = "chat" THEN <<"m","s","g","_">>
  ELSE <<"a","p","p","_">>
idString(id) == idPrefix(id[1]) \o decimal(id[2])

\* r[h] as String(r[h]) gives it, Undef for a property the entry does not have.
property(r, h) ==
  IF h = Hid THEN idString(r.id)
  ELSE IF h = Hname THEN r.name
  ELSE IF h = Hemail THEN r.email
  ELSE IF h = HbusinessType THEN r.businessType
  ELSE IF h = Hlocation THEN r.location
  ELSE IF h = HnewsletterConsent /\ "newsletterConsent" \in DOMAIN r
  THEN (IF r.newsletterConsent THEN <<"t","r","u","e">> ELSE <<"f","a","l","s","e">>)
  ELSE Undef

\* str.replace(/"/g, '""')
RECURSIVE doubleQuotes(_)
doubleQuotes(str) ==
  IF str = <<>> THEN <<>>
  ELSE (IF Head(str) = DQuote THEN <<DQuote, DQuote>> ELSE <<Head(str)>>)
         \o doubleQuotes(Tail(str))

\* escape(val)
escape_NeverQuoted(val) ==
  IF val = Undef \/ val = Null THEN <<>> ELSE doubleQuotes(val)
escape(val) ==
  IF val = Undef \/ val = Null THEN <<>>
  ELSE LET str == doubleQuotes(val)
       IN IF Includes(str, <<Comma>>) \/ Includes(str, <<Newline>>)
          THEN <<DQuote>> \o str \o <<DQuote>>
          ELSE str

\* Array.prototype.join
RECURSIVE join(_, _)
join(parts, sep) ==
  IF parts = <<>> THEN <<>>
  ELSE IF Len(parts) = 1 THEN parts[1]
  ELSE parts[1] \o sep \o join(Tail(parts), sep)

\* GET /api/admin/export/:type
exportCsv(type, fs) ==
  LET headers == headersOf(type)
  IN IF headers = <<>> THEN Export(type, 400, <<>>)
     ELSE LET rows == loadJSON(fs[type])
              line(r) == join([h \in 1..Len(headers) |-> escape(property(r, headers[h]))],
                              <<Comma>>)
              csv == join(<<join(headers, <<Comma>>)>>
                            \o [k \in 1..Len(rows) |-> line(rows[k])],
                          <<Newline>>)
          IN Export(type, 200, csv)

ExportTypes == {"waitlist", "early", "newsletter", "applications"}

ExportCsv ==
  /\ \E type \in ExportTypes : exported' = exportCsv(type, files)
  /\ UNCHANGED <<smtp, files, srv, mails, accepted, overlapped, now, nreq>>
  /\ UNCHANGED <<env, table, issued, hs, catalogVars, clientVars, adminVars, seedVars>>

\* Field values with the characters the export treats specially.
WithComma == <<"a", ",", "b">>
WithNewline == <<"a", "\n", "b">>
WithQuote == <<"a", "\"", "b">>
WithQuoteAndComma == <<"\"", ",", "\"", "a">>
EComma == <<"a", ",", "@", "x", ".", "c">>

\* A waitlist file as accepted submissions leave it: one to three entries
\* with emails that differ, saved at times 1, 1 and 2, or none.
ExportInit ==
  /\ smtp = FALSE
  /\ \E n \in 0..3, e1 \in {E1, EComma},
        n1 \in {Undef, N1, WithComma, WithNewline, WithQuote, WithQuoteAndComma},
        l1 \in {Undef, WithQuoteAndComma}, n2 \in {N1, WithNewline, WithQuote} :
       LET all == <<newEntry(Signup("waitlist", e1, n1, Undef, l1), 1),
                    newEntry(Signup("waitlist", E2, n2, N1, N1), 1),
                    newEntry(Signup("waitlist", <<"c","@","x",".","c">>, N1, Undef, Undef), 2)>>
       IN files = [l \in Lists |-> IF l = "waitlist" THEN SubSeq(all, 1, n) ELSE <<>>]
  /\ srv = [p \in Servers |-> Resting]
  /\ mails = <<>>
  /\ accepted = [l \in Lists |-> 0]
  /\ overlapped = [l \in Lists |-> FALSE]
  /\ exported = NoExport

ExportNext == ExportCsv

(***************************************************************************)
(* The catalog and GET /api/search (backend/server.js lines 172-213,       *)
(* part_001 lines 589-630).                                                *)
(***************************************************************************)
Item(id, name, season) == [id |-> id, name |-> name, season |-> season]
Category(id, name, items) == [id |-> id, name |-> name, items |-> items]
Farm(id, name, location, specialties) ==
  [id |-> id, name |-> name, location |-> location, specialties |-> specialties]

\* The values of the q query parameter the model sends.
Queries ==
  {Undef, Empty, <<"m">>, <<"m","a">>, <<"M","A">>, <<"a","m">>, <<"A","c","c">>,
   <<"r","o","m">>, <<"z","z">>, Yam}

\* { ...item, category: cat.name, categoryId: cat.id }
withCategory(item, cat) ==
  [id |-> item.id, name |-> item.name, season |-> item.season,
   category |-> cat.name, categoryId |-> cat.id]

\* The test of the produce loop (server.js lines 188-189); query is lower case.
produceMatches_NameOnly(item, cat, query) == Includes(ToLower(item.name), query)
produceMatches(item, cat, query) ==
  \/ Includes(ToLower(item.name), query)
  \/ Includes(ToLower(cat.name), query)

\* The test of the farm loop (server.js lines 201-203).
farmMatches(farm, query) ==
  \/ Includes(ToLower(farm.name), query)
  \/ Includes(ToLower(farm.location), query)
  \/ \E i \in 1..Len(farm.specialties) : Includes(ToLower(farm.specialties[i]), query)

\* cat.items.forEach(...) of the produce loop: the matches of one category,
\* in order.
RECURSIVE searchItems(_, _, _)
searchItems(items, cat, query) ==
  IF items = <<>> THEN <<>>
  ELSE (IF produceMatches(Head(items), cat, query)
        THEN <<withCategory(Head(items), cat)>> ELSE <<>>)
         \o searchItems(Tail(items), cat, query)

\* produceData.categories.forEach(...)
RECURSIVE searchProduce(_, _)
searchProduce(cats, query) ==
  IF cats = <<>> THEN <<>>
  ELSE searchItems(Head(cats).items, Head(cats), query)
         \o searchProduce(Tail(cats), query)

\* farmsData.farms.forEach(...)
RECURSIVE searchFarms(_, _)
searchFarms(farms, query) ==
  IF farms = <<>> THEN <<>>
  ELSE (IF farmMatches(Head(farms), query) THEN <<Head(farms)>> ELSE <<>>)
         \o searchFarms(Tail(farms), query)

\* The answer of a search; asked is TRUE once a search was answered.
SearchAnswer(asked, status, q, count, produce, farms) ==
  [asked |-> asked, status |-> status, query |-> q, count |-> count,
   produce |-> produce, farms |-> farms]
NoSearch == SearchAnswer(FALSE, 0, Undef, 0, <<>>, <<>>)

\* GET /api/search?q=...
search(q, pd, fd) ==
  IF ~Truthy(q) \/ Len(q) < 2 THEN SearchAnswer(TRUE, 400, q, 0, <<>>, <<>>)
  ELSE LET query == ToLower(q)
           produce == searchProduce(pd.categories, query)
           farms == searchFarms(fd.farms, query)
       IN SearchAnswer(TRUE, 200, q, Len(produce) + Len(farms), produce, farms)

Search ==
  /\ \E q \in Queries : searched' = search(q, produceData, farmsData)
  /\ UNCHANGED <<produceData, farmsData, got, now, nreq>>
  /\ UNCHANGED <<env, table, issued, hs, fileVars, clientVars, adminVars, seedVars>>

(***************************************************************************)
(* The catalog GETs (part_001 lines 486-587, backend/server.js lines       *)
(* 69-169): the produce list with its filters and the lookups by id.       *)
(***************************************************************************)
\* Season strings of the catalog.
YearRound == <<"Y","e","a","r","-","r","o","u","n","d">>
MayAug == <<"M","a","y","-","A","u","g">>
NovMar == <<"N","o","v","-","M","a","r">>

\* The answer of a catalog GET: the route that served it, the status, and
\* the JSON body (for a list: count and items).
Answer(route, status, params, body) ==
  [asked |-> TRUE, route |-> route, status |-> status, params |-> params,
   body |-> body]
NoAnswer ==
  [asked |-> FALSE, route |-> "none", status |-> 0, params |-> <<>>, body |-> <<>>]

\* The routes in the order app.get registers them; a segment starting with
\* ":" is a parameter.
SegApi == <<"a","p","i">>
SegCategories == <<"c","a","t","e","g","o","r","i","e","s">>
SegProduce == <<"p","r","o","d","u","c","e">>
SegCategory == <<"c","a","t","e","g","o","r","y">>
SegFarms == <<"f","a","r","m","s">>
ParamCategoryId == <<":","c","a","t","e","g","o","r","y","I","d">>
ParamId == <<":","i","d">>

Routes ==
  << [name |-> "categories", pattern |-> <<SegApi, SegCategories>>],
     [name |-> "produce", pattern |-> <<SegApi, SegProduce>>],
     [name |-> "category", pattern |-> <<SegApi, SegProduce, SegCategory, ParamCategoryId>>],
     [name |-> "item", pattern |-> <<SegApi, SegProduce, ParamId>>],
     [name |-> "farms", pattern |-> <<SegApi, SegFarms>>],
     [name |-> "farm", pattern |-> <<SegApi, SegFarms, ParamId>>] >>

IsParam(seg) == Head(seg) = ":"

\* Express matches a path against a pattern segment by segment.
pathMatches(pattern, path) ==
  /\ Len(pattern) = Len(path)
  /\ \A i \in 1..Len(pattern) : IsParam(pattern[i]) \/ pattern[i] = path[i]

\* The first registered route that matches, 0 when none does (the 404
\* fallback of app.use).
RECURSIVE routeFrom(_, _)
routeFrom(i, path) ==
  IF i > Len(Routes) THEN 0
  ELSE IF pathMatches(Routes[i].pattern, path) THEN i
  ELSE routeFrom(i + 1, path)
route(path) == routeFrom(1, path)

\* req.params of the matched route: the segment at the parameter's place.
param(r, path) ==
  LET pat == Routes[r].pattern
  IN path[CHOOSE i \in 1..Len(pat) : IsParam(pat[i])]

\* Array.prototype.find: the first element that satisfies the test, as a
\* sequence of at most one element.
RECURSIVE findById(_, _)
findById(seq, id) ==
  IF seq = <<>> THEN <<>>
  ELSE IF Head(seq).id = id THEN <<Head(seq)>>
  ELSE findById(Tail(seq), id)

\* The loop of GET /api/produce/:id: the item and its category, found in the
\* first category that holds the id.
RECURSIVE findItem_Last(_, _)
findItem_Last(cats, id) ==
  IF cats = <<>> THEN <<>>
  ELSE LET later == findItem_Last(Tail(cats), id)
           item == findById(Head(cats).items, id)
       IN IF later # <<>> THEN later
          ELSE IF item # <<>> THEN <<withCategory(item[1], Head(cats))>>
          ELSE <<>>
RECURSIVE findItem(_, _)
findItem(cats, id) ==
  IF cats = <<>> THEN <<>>
  ELSE LET item == findById(Head(cats).items, id)
       IN IF item # <<>> THEN <<withCategory(item[1], Head(cats))>>
          ELSE findItem(Tail(cats), id)

\* cat.items.map(item => ({...item, category, categoryId}))
annotate(items, cat) == [i \in 1..Len(items) |-> withCategory(items[i], cat)]

\* The category test of GET /api/produce.
categorySelected_Substring(cat, category) ==
  ~Truthy(category) \/ Includes(ToLower(cat.id), ToLower(category))
categorySelected(cat, category) == ~Truthy(category) \/ cat.id = category

\* produceData.categories.forEach of GET /api/produce.
RECURSIVE collectItems(_, _)
collectItems(cats, category) ==
  IF cats = <<>> THEN <<>>
  ELSE (IF categorySelected(Head(cats), category)
        THEN annotate(Head(cats).items, Head(cats)) ELSE <<>>)
         \o collectItems(Tail(cats), category)

\* The test of the season filter.
inSeason_ContainsOnly(item, season) ==
  Includes(ToLower(item.season), ToLower(season))
inSeason(item, season) ==
  \/ Includes(ToLower(item.season), ToLower(season))
  \/ ToLower(item.season) = <<"y","e","a","r","-","r","o","u","n","d">>

\* items.filter of the season filter.
RECURSIVE filterSeason(_, _)
filterSeason(items, season) ==
  IF items = <<>> THEN <<>>
  ELSE (IF inSeason(Head(items), season) THEN <<Head(items)>> ELSE <<>>)
         \o filterSeason(Tail(items), season)

\* GET /api/produce?category=..&season=..
listProduce(category, season, pd) ==
  LET all == collectItems(pd.categories, category)
      items == IF Truthy(season) THEN filterSeason(all, season) ELSE all
  IN Answer("produce", 200, [category |-> category, season |-> season],
            [count |-> Len(items), items |-> items])

\* The status of a lookup by id.
lookupStatus_Always200(found) == 200
lookupStatus(found) == IF found = <<>> THEN 404 ELSE 200

\* A GET of a path that ends in an id: the route, then its handler.
getById(path, pd, fd) ==
  LET r == route(path)
  IN IF r = 0 \/ Routes[r].name \notin {"category", "item", "farm"}
     THEN Answer("none", 404, path, <<>>)
     ELSE LET name == Routes[r].name
              id == param(r, path)
              found == IF name = "category" THEN findById(pd.categories, id)
                       ELSE IF name = "item" THEN findItem(pd.categories, id)
                       ELSE findById(fd.farms, id)
          IN Answer(name, lookupStatus(found), path, found)

\* The values of the category and season query parameters the model sends.
CategoryParams == {Undef, Empty, <<"c","1">>, <<"c","2">>, <<"C","1">>, <<"c">>, <<"z">>}
SeasonParams == {Undef, Empty, <<"m","a","y">>, <<"M","A","R">>, <<"y","e","a","r">>, <<"z">>}

\* The ids the model asks for: of items, categories and farms, and unknown.
IdParams ==
  {<<"1">>, <<"2">>, <<"3">>, <<"c","1">>, <<"c","2">>, <<"f","1">>, <<"f","2">>,
   <<"z">>, <<"C","1">>, SegCategory}

\* The paths the model asks for.
LookupPaths ==
  {<<SegApi, SegProduce, id>> : id \in IdParams}
    \cup {<<SegApi, SegProduce, SegCategory, id>> : id \in IdParams}
    \cup {<<SegApi, SegFarms, id>> : id \in IdParams}

ListProduce ==
  /\ \E category \in CategoryParams, season \in SeasonParams :
       got' = listProduce(category, season, produceData)
  /\ UNCHANGED <<produceData, farmsData, searched, now, nreq>>
  /\ UNCHANGED <<env, table, issued, hs, fileVars, clientVars, adminVars, seedVars>>

GetById ==
  /\ \E path \in LookupPaths : got' = getById(path, produceData, farmsData)
  /\ UNCHANGED <<produceData, farmsData, searched, now, nreq>>
  /\ UNCHANGED <<env, table, issued, hs, fileVars, clientVars, adminVars, seedVars>>

BrowseNext == ListProduce \/ GetById

\* The produce catalogs the model loads: two categories (the second may be
\* empty, or hold an item whose id is also in the first).
ProduceInit ==
  \E c1 \in {Fruits, Roman}, n1 \in {Mango, Yam, Okra}, n2 \in {Mango, Yam},
     s1 \in {YearRound, NovMar}, i3 \in {<<"3">>, <<"1">>}, k \in 0..1 :
    produceData =
      [categories |->
         <<Category(<<"c","1">>, c1,
                    <<Item(<<"1">>, n1, s1), Item(<<"2">>, n2, MayAug)>>),
           Category(<<"c","2">>, Roman,
                    IF k = 1 THEN <<Item(i3, Okra, NovMar)>> ELSE <<>>)>>]

\* The farm catalogs the model loads: two farms.
FarmsInit ==
  \E fn \in {Oma, Tako}, loc \in {Accra, Tamale},
     sp \in {<<>>, <<Yam>>, <<Herbs, Mango>>} :
    farmsData =
      [farms |-> <<Farm(<<"f","1">>, fn, loc, sp),
                   Farm(<<"f","2">>, Tako, Tamale, <<Herbs>>)>>]

CatalogInit ==
  /\ ProduceInit
  /\ FarmsInit
  /\ searched = NoSearch
  /\ got = NoAnswer

\* The catalogs of the runs that browse the produce: the farms are fixed.
BrowseInit ==
  /\ ProduceInit
  /\ farmsData =
       [farms |-> <<Farm(<<"f","1">>, Oma, Accra, <<Yam>>),
                    Farm(<<"f","2">>, Tako, Tamale, <<Herbs>>)>>]
  /\ searched = NoSearch
  /\ got = NoAnswer

\* A fixed catalog (the other parts run alone).
CatalogQuiet ==
  /\ produceData = [categories |-> <<>>]
  /\ farmsData = [farms |-> <<>>]
  /\ searched = NoSearch
  /\ got = NoAnswer

CatalogNext == Search

(***************************************************************************)
(* The browser-side farm helpers: api.updateFarm and api.deleteFarm        *)
(* (part_001 lines 181-239).                                               *)
(***************************************************************************)
Clients == 1..MaxClients

\* A row of the farms table; NoFarm stands for "no row with this id".
FarmRow(owner_id, name, updated_at) ==
  [present |-> TRUE, owner_id |-> owner_id, name |-> name,
   updated_at |-> updated_at]
NoFarm == [present |-> FALSE, owner_id |-> Null, name |-> Undef, updated_at |-> 0]

\* The ids of the table, and the ids a caller passes.
FarmIds == {U1}
FarmIdInputs == {U1, Short, BadVersion}

\* farmData: the columns to set; Undef for a column the caller leaves out.
FarmData(name, owner_id) == [name |-> name, owner_id |-> owner_id]
FarmDataInputs == {FarmData(Oma, Undef), FarmData(Oma, OwnerB)}

\* user?.id || null
getCurrentUserId(user) == IF Truthy(user) THEN user ELSE Null

\* existing.owner_id && existing.owner_id !== owner_id
ownerDiffers_SignedInOnly(existing, owner_id) ==
  Truthy(existing) /\ Truthy(owner_id) /\ existing # owner_id
ownerDiffers(existing, owner_id) == Truthy(existing) /\ existing # owner_id

\* A browser running no helper. pc: "idle", "lookup" (the select of owner_id
\* is next), "mutate" (the update or delete is next), "done". error: "none",
\* "invalid" (Invalid UUID format), "fetch" (the error of the select),
\* "denied" (Access denied), "failed" (the error of the update or delete).
\* lookup and overlapped record how the select went and whether the call ran
\* while another call was in progress; sent lists the requests the call made
\* ("auth", "select", "update", "delete").
NoCall ==
  [pc |-> "idle", op |-> "update", farmId |-> U1, farmData |-> FarmData(Undef, Undef),
   owner_id |-> Null, error |-> "none", lookup |-> "none", overlapped |-> FALSE,
   sent |-> <<>>]

Returned(call, error) == [call EXCEPT !.pc = "done", !.error = error]

\* updateFarm / deleteFarm / getFarmById up to the select (lines 182-186,
\* 213-217, 243-245); getFarmById (op "get") does not ask for the user.
farmBegin(op, farmId, farmData, user) ==
  LET call == [NoCall EXCEPT !.op = op, !.farmId = farmId, !.farmData = farmData]
  IN IF ~validUUID[farmId] THEN Returned(call, "invalid")
     ELSE IF op = "get" THEN [call EXCEPT !.pc = "lookup"]
     ELSE [call EXCEPT !.pc = "lookup", !.owner_id = getCurrentUserId(user),
                       !.sent = <<"auth">>]

\* .select('owner_id').eq('id', farmId).single() and the tests that follow
\* (lines 189-201, 220-232): single() is an error unless one row matches.
\* getFarmById returns what its select gave (lines 247-252).
farmChecked_FailOpen(call, row, out) ==
  LET asked == [call EXCEPT !.sent = Append(@, "select")]
  IN IF call.op = "get"
     THEN Returned([asked EXCEPT !.lookup = IF out = "ok" /\ row.present
                                            THEN "ok" ELSE "error"],
                   IF out = "ok" /\ row.present THEN "none" ELSE "fetch")
     ELSE IF out = "ok" /\ row.present /\ ownerDiffers(row.owner_id, call.owner_id)
     THEN Returned([asked EXCEPT !.lookup = "ok"], "denied")
     ELSE [asked EXCEPT !.pc = "mutate",
                        !.lookup = IF out = "ok" /\ row.present THEN "ok" ELSE "error"]
farmChecked(call, row, out) ==
  LET asked == [call EXCEPT !.sent = Append(@, "select")]
  IN IF out # "ok" \/ ~row.present
     THEN Returned([asked EXCEPT !.lookup = "error"], "fetch")
     ELSE IF call.op = "get" THEN Returned([asked EXCEPT !.lookup = "ok"], "none")
     ELSE IF ownerDiffers(row.owner_id, call.owner_id)
     THEN Returned([asked EXCEPT !.lookup = "ok"], "denied")
     ELSE [asked EXCEPT !.pc = "mutate", !.lookup = "ok"]

\* .update({ ...farmData, updated_at }).eq('id', farmId)
farmUpdated(row, farmData, t) ==
  [row EXCEPT !.name = IF farmData.name = Undef THEN @ ELSE farmData.name,
              !.owner_id = IF farmData.owner_id = Undef THEN @ ELSE farmData.owner_id,
              !.updated_at = t]

InProgress(c) == calls[c].pc \in {"lookup", "mutate"}

\* A browser calls updateFarm, deleteFarm or getFarmById.
CallFarm(c) ==
  /\ calls[c].pc \in {"idle", "done"}
  /\ nreq < MaxCalls
  /\ \E op \in {"update", "delete", "get"}, farmId \in FarmIdInputs, farmData \in FarmDataInputs :
       LET call == farmBegin(op, farmId, IF op = "update" THEN farmData
                                         ELSE FarmData(Undef, Undef), session[c])
           meets == call.pc = "lookup" /\ \E d \in Clients \ {c} : InProgress(d)
       IN calls' = [d \in Clients |->
                      IF d = c THEN [call EXCEPT !.overlapped = meets]
                      ELSE IF call.pc = "lookup" /\ InProgress(d)
                      THEN [calls[d] EXCEPT !.overlapped = TRUE]
                      ELSE calls[d]]
  /\ nreq' = nreq + 1
  /\ UNCHANGED <<farmsTable, session, now>>
  /\ UNCHANGED <<blogVars, fileVars, catalogVars, adminVars, seedVars>>

\* The select of owner_id answers.
FarmLookup(c) ==
  /\ calls[c].pc = "lookup"
  /\ \E out \in {"ok", "error"} :
       calls' = [calls EXCEPT ![c] = farmChecked(@, farmsTable[@.farmId], out)]
  /\ UNCHANGED <<farmsTable, session, now, nreq>>
  /\ UNCHANGED <<blogVars, fileVars, catalogVars, adminVars, seedVars>>

\* The update or delete answers (lines 203-208, 234-238).
FarmMutate(c) ==
  /\ calls[c].pc = "mutate"
  /\ \E out \in {"ok", "error"} :
       LET call == calls[c]
           row == farmsTable[call.farmId]
       IN /\ calls' = [calls EXCEPT ![c] =
                         Returned([@ EXCEPT !.sent = Append(@, call.op)],
                                  IF out = "ok" THEN "none" ELSE "failed")]
          /\ farmsTable' = IF out # "ok" \/ ~row.present THEN farmsTable
                      ELSE IF call.op = "delete"
                      THEN [farmsTable EXCEPT ![call.farmId] = NoFarm]
                      ELSE [farmsTable EXCEPT ![call.farmId] =
                              farmUpdated(row, call.farmData, now)]
  /\ UNCHANGED <<session, now, nreq>>
  /\ UNCHANGED <<blogVars, fileVars, catalogVars, adminVars, seedVars>>

\* The table holds no row, an unowned row or a row of user A; each browser is
\* signed out or signed in as A or B.
ClientInit ==
  /\ farmsTable \in [FarmIds -> {NoFarm, FarmRow(Null, Yam, 0), FarmRow(OwnerA, Yam, 0)}]
  /\ session \in [Clients -> {Null, OwnerA, OwnerB}]
  /\ calls = [c \in Clients |-> NoCall]

\* No browser uses the helpers (the other parts run alone).
ClientQuiet ==
  /\ farmsTable = [f \in FarmIds |-> NoFarm]
  /\ session = [c \in Clients |-> Null]
  /\ calls = [c \in Clients |-> NoCall]

ClientNext ==
  \/ \E c \in Clients : CallFarm(c)
  \/ \E c \in Clients : FarmLookup(c)
  \/ \E c \in Clients : FarmMutate(c)
  \/ Tick

(***************************************************************************)
(* One server process: the POST handlers above handled by process 1 alone, *)
(* with GET /api/admin/stats (part_001 lines 840-864) and                  *)
(* GET /api/chat/messages/:sessionId (lines 928-936).                      *)
(***************************************************************************)
\* The answer of a GET.
Reply(path, sessionId, body) == [path |-> path, sessionId |-> sessionId, body |-> body]
NoReply == Reply("none", Undef, <<>>)

\* applications.filter(a => a.status === status).length
countStatus(list, status) ==
  Cardinality({i \in 1..Len(list) : list[i].status = status})

\* The body of GET /api/admin/stats.
stats_WaitlistFromNewsletter(fs) ==
  [farmApplications |->
     [total |-> Len(fs["applications"]),
      pending |-> countStatus(fs["applications"], "pending"),
      approved |-> countStatus(fs["applications"], "approved"),
      rejected |-> countStatus(fs["applications"], "rejected")],
   newsletter |-> [total |-> Len(fs["newsletter"])],
   waitlist |-> [total |-> Len(fs["newsletter"])],
   earlyAccess |-> [total |-> Len(fs["early"])]]
stats(fs) ==
  [farmApplications |->
     [total |-> Len(fs["applications"]),
      pending |-> countStatus(fs["applications"], "pending"),
      approved |-> countStatus(fs["applications"], "approved"),
      rejected |-> countStatus(fs["applications"], "rejected")],
   newsletter |-> [total |-> Len(fs["newsletter"])],
   waitlist |-> [total |-> Len(fs["waitlist"])],
   earlyAccess |-> [total |-> Len(fs["early"])]]

\* chatMessages.filter(msg => msg.sessionId === req.params.sessionId)
sessionMessages_All(chatMessages, sessionId) == chatMessages
sessionMessages(chatMessages, sessionId) ==
  SelectSeq(chatMessages, LAMBDA msg : msg.sessionId = sessionId)

\* The body of GET /api/chat/messages/:sessionId.
chatHistory(chatMessages, sessionId) ==
  LET found == sessionMessages(chatMessages, sessionId)
  IN [count |-> Len(found), messages |-> found]

\* The bodies sent to the single process, chat messages of two sessions among
\* them, and the session ids asked for.
OneSignups ==
  {Signup("waitlist", e, Undef, Undef, Undef) : e \in {E1, E2, NoAt}}
    \cup {Signup("newsletter", E1, Undef, Undef, Undef), Signup("early", E1, N1, N1, N1),
          Application(E1, Accra, Oma, <<"1","2">>, N1),
          ChatMessage(N1, Herbs), ChatMessage(Oma, Yam)}
SessionParams == {N1, Oma, Accra}

Receive == SubmitFrom(1, OneSignups)

GetStats ==
  /\ srv[1].pc \in {"idle", "done"}
  /\ replied' = Reply("stats", Undef, stats([l \in Lists |-> loadJSON(files[l])]))
  /\ UNCHANGED <<fileVars, now, nreq>>
  /\ UNCHANGED <<blogVars, catalogVars, clientVars, seedVars>>

GetChat ==
  /\ srv[1].pc \in {"idle", "done"}
  /\ \E sessionId \in SessionParams :
       replied' = Reply("chat", sessionId,
                        chatHistory(loadJSON(files["chat"]), sessionId))
  /\ UNCHANGED <<fileVars, now, nreq>>
  /\ UNCHANGED <<blogVars, catalogVars, clientVars, seedVars>>

\* No GET was answered (the other parts run alone).
AdminQuiet == replied = NoReply

OneNext ==
  \/ Receive
  \/ Save(1)
  \/ \E i \in 1..MaxSubmissions : MailSettle(i)
  \/ GetStats
  \/ GetChat
  \/ Tick

(***************************************************************************)
(* The farm seeding script: setupFarms (part_003 lines 134-190).  Runs do  *)
(* not overlap: a run starts when the one before has returned.             *)
(***************************************************************************)
\* The rows the script inserts, by name.
sampleFarms == <<Oma, Tako>>

\* The farms table: Missing when it was not created, else its rows.
Missing == <<"missing">>
tableExists(t) == t # Missing

\* The error code of a table that does not exist.
UndefinedTable == <<"4","2","P","0","1">>
OtherError == <<"0","8","0","0","6">>

\* A run of the script. pc: "idle", "check" (the select with limit 1 is
\* next), "existing" (the select of all rows is next), "insert", "done".
\* end tells how the run returned: "missing", "skipped", "failed", "seeded".
NoRun ==
  [pc |-> "idle", checkError |-> Null, existingData |-> Null, end |-> "none"]

Ended(r, how) == [r EXCEPT !.pc = "done", !.end = how]

\* What a select is answered with: the rows, or an error whose code is
\* 42P01 when the table does not exist.
SelectErrors(t) == IF tableExists(t) THEN {Null, OtherError} ELSE {UndefinedTable, OtherError}

\* Lines 138-166: the first select and the test of its error.
seedChecked(r, checkError) ==
  IF checkError # Null /\ checkError = UndefinedTable
  THEN Ended([r EXCEPT !.checkError = checkError], "missing")
  ELSE [r EXCEPT !.pc = "existing", !.checkError = checkError]

\* existingData && existingData.length > 0
hasData(existingData) == existingData # Null /\ Len(existingData) > 0

\* Lines 169-174: the second select (data is null when it fails) and the test.
seedCounted(r, existingData) ==
  IF hasData(existingData)
  THEN Ended([r EXCEPT !.existingData = existingData], "skipped")
  ELSE [r EXCEPT !.pc = "insert", !.existingData = existingData]

\* The script is started.
StartSeed ==
  /\ run.pc \in {"idle", "done"}
  /\ nreq < MaxRuns
  /\ run' = [NoRun EXCEPT !.pc = "check"]
  /\ nreq' = nreq + 1
  /\ UNCHANGED <<seedFarms, now>>
  /\ UNCHANGED <<blogVars, fileVars, catalogVars, clientVars, adminVars>>

\* The select with limit 1 is answered.
SeedCheck ==
  /\ run.pc = "check"
  /\ \E e \in SelectErrors(seedFarms) : run' = seedChecked(run, e)
  /\ UNCHANGED <<seedFarms, now, nreq>>
  /\ UNCHANGED <<blogVars, fileVars, catalogVars, clientVars, adminVars>>

\* The select of all rows is answered.
SeedExisting ==
  /\ run.pc = "existing"
  /\ \E e \in SelectErrors(seedFarms) :
       run' = seedCounted(run, IF e = Null THEN seedFarms ELSE Null)
  /\ UNCHANGED <<seedFarms, now, nreq>>
  /\ UNCHANGED <<blogVars, fileVars, catalogVars, clientVars, adminVars>>

\* The insert is answered (lines 177-189).
SeedInsert ==
  /\ run.pc = "insert"
  /\ \E e \in SelectErrors(seedFarms) :
       /\ seedFarms' = IF e = Null THEN seedFarms \o sampleFarms ELSE seedFarms
       /\ run' = Ended(run, IF e = Null THEN "seeded" ELSE "failed")
  /\ UNCHANGED <<now, nreq>>
  /\ UNCHANGED <<blogVars, fileVars, catalogVars, clientVars, adminVars>>

\* Between runs the table is created with the SQL the script prints (lines
\* 144-165).
CreateTable ==
  /\ run.pc \in {"idle", "done"}
  /\ ~tableExists(seedFarms)
  /\ seedFarms' = <<>>
  /\ UNCHANGED <<run, now, nreq>>
  /\ UNCHANGED <<blogVars, fileVars, catalogVars, clientVars, adminVars>>

\* The table is missing, empty, holds a farm of its own or was seeded before.
SeedInit ==
  /\ seedFarms \in {Missing, <<>>, <<Accra>>, sampleFarms}
  /\ run = NoRun

\* The seeding script is not run (the other parts run alone).
SeedQuiet == seedFarms = Missing /\ run = NoRun

SeedNext == StartSeed \/ SeedCheck \/ SeedExisting \/ SeedInsert \/ CreateTable

(***************************************************************************)
(* Specifications: the blog functions, the express server's signup         *)
(* endpoints, the catalog.                                                 *)
(***************************************************************************)
Init == BlogInit /\ now = 1 /\ nreq = 0 /\ FileQuiet /\ CatalogQuiet /\ ClientQuiet /\ AdminQuiet /\ SeedQuiet
Next == BlogNext
Spec == Init /\ [][Next]_vars

InitFile == FileInit /\ now = 1 /\ nreq = 0 /\ BlogQuiet /\ CatalogQuiet /\ ClientQuiet /\ AdminQuiet /\ SeedQuiet
SpecFile == InitFile /\ [][FileNext]_vars

InitCatalog == CatalogInit /\ now = 1 /\ nreq = 0 /\ BlogQuiet /\ FileQuiet /\ ClientQuiet /\ AdminQuiet /\ SeedQuiet
SpecCatalog == InitCatalog /\ [][CatalogNext]_vars

InitExport == ExportInit /\ now = 1 /\ nreq = 0 /\ BlogQuiet /\ CatalogQuiet /\ ClientQuiet /\ AdminQuiet /\ SeedQuiet
SpecExport == InitExport /\ [][ExportNext]_vars

InitBrowse == BrowseInit /\ now = 1 /\ nreq = 0 /\ BlogQuiet /\ FileQuiet /\ ClientQuiet /\ AdminQuiet /\ SeedQuiet
SpecBrowse == InitBrowse /\ [][BrowseNext]_vars

InitOne ==
  /\ FileInit /\ now = 1 /\ nreq = 0 /\ BlogQuiet /\ CatalogQuiet /\ ClientQuiet
  /\ AdminQuiet /\ SeedQuiet
SpecOne == InitOne /\ [][OneNext]_vars

InitSeed ==
  /\ SeedInit /\ now = 1 /\ nreq = 0 /\ BlogQuiet /\ FileQuiet /\ CatalogQuiet
  /\ ClientQuiet /\ AdminQuiet
SpecSeed == InitSeed /\ [][SeedNext]_vars

InitClient ==
  /\ ClientInit /\ now = 1 /\ nreq = 0 /\ BlogQuiet /\ FileQuiet /\ CatalogQuiet
  /\ AdminQuiet /\ SeedQuiet
SpecClient == InitClient /\ [][ClientNext]_vars


(***************************************************************************)
(* Properties of the blog functions.                                       *)
(***************************************************************************)
\* An invocation of part_000 that passed the configuration and auth gates.
AdminAuthed(inv) ==
  /\ inv.pc # "idle"
  /\ inv.req.ep = "admin"
  /\ env.supabase
  /\ verifyAdminAuth(inv.req.auth, env.adminKey)

\* The invocation got an HTTP response to every storage request it awaited.
NoFetchThrew(inv) == inv.lookup # "throw" /\ ~(inv.pc = "done" /\ inv.status = 500)

\* The post the invocation names is stored and owned by A.
TargetsPostOfA(inv) ==
  /\ inv.req.body.id \in DOMAIN table
  /\ table[inv.req.body.id].owner_id = OwnerA

\* C1: for a stored post owned by A, an authenticated PUT carrying owner_id B
\* is answered 403 and issues no PATCH, and an authenticated PUT carrying
\* owner_id A or no owner_id whose PATCH the storage accepts is answered 200
\* and overwrites the row (and with it updated_at).
C1_PutOwnerChecked ==
  \A h \in Handlers :
    LET inv == hs[h]
        b == inv.req.body
    IN (AdminAuthed(inv) /\ inv.req.method = "PUT" /\ inv.pc = "done"
          /\ NoFetchThrew(inv) /\ TargetsPostOfA(inv))
       => /\ b.owner_id = OwnerB =>
               inv.status = 403 /\ "patch" \notin Range(inv.reqs)
          /\ (b.owner_id \in {OwnerA, Undef} /\ inv.status \notin UpstreamStatuses) =>
               inv.status = 200 /\ inv.hit # NoRow

\* C2: a post owned by A is removed by an authenticated DELETE only if the
\* request carries owner_id A, and a DELETE that does not carry A issues no
\* storage DELETE for a post owned by A.
C2_DeleteOwnerGated ==
  \A h \in Handlers :
    LET inv == hs[h]
        b == inv.req.body
    IN (AdminAuthed(inv) /\ inv.req.method = "DELETE" /\ inv.pc = "done")
       => /\ inv.hit.owner_id = OwnerA => b.owner_id = OwnerA
          /\ (TargetsPostOfA(inv) /\ b.owner_id # OwnerA /\ NoFetchThrew(inv)) =>
               "delete" \notin Range(inv.reqs)

\* C3: a GET, PUT or DELETE of part_000, or a DELETE of blog-post.js, that
\* carries an id not of UUID v4 shape is answered 400 and sends no request to
\* the storage table.
C3_MalformedIdNoStorage ==
  \A h \in Handlers :
    LET inv == hs[h]
        b == inv.req.body
        admin == inv.req.ep = "admin" /\ inv.req.method \in {"GET", "PUT", "DELETE"}
                   /\ (inv.req.method = "GET" \/ AdminAuthed(inv))
        legacy == inv.req.ep = "legacy" /\ inv.req.method = "DELETE"
    IN (inv.pc # "idle" /\ env.supabase /\ (admin \/ legacy)
          /\ Truthy(b.id) /\ ~isValidUUID(b.id))
       => inv.reqs = <<>> /\ inv.pc = "done" /\ inv.status = 400

\* A POST, PUT or DELETE whose body has the fields its method requires.
WellFormedMutation(req) ==
  \/ /\ req.method = "POST"
     /\ Truthy(req.body.title) /\ Truthy(req.body.category) /\ Truthy(req.body.content)
  \/ /\ req.method \in {"PUT", "DELETE"}
     /\ Truthy(req.body.id)

\* C4: in both functions a POST, PUT or DELETE (with the fields its method
\* requires) whose Authorization header is missing or does not carry the
\* admin secret is answered 401 and sends no request to the storage table.
C4_MutationNeedsAdminToken ==
  \A h \in Handlers :
    LET inv == hs[h]
    IN (inv.pc # "idle" /\ env.supabase
          /\ WellFormedMutation(inv.req)
          /\ ~verifyAdminAuth(inv.req.auth, env.adminKey))
       => inv.reqs = <<>> /\ inv.pc = "done" /\ inv.status = 401

\* An invocation of PUT or DELETE that carries an owner_id.
OwnerCarrying(inv) ==
  /\ AdminAuthed(inv)
  /\ inv.req.method \in {"PUT", "DELETE"}
  /\ Truthy(inv.req.body.owner_id)

\* C6: the ownership check and the write are two storage requests: a PUT or
\* DELETE carrying an owner_id sends its PATCH or DELETE only after a lookup
\* of its own was answered, and the row is untouched while that write is in
\* flight.
C6_CheckThenWrite ==
  \A h \in Handlers :
    LET inv == hs[h]
    IN (OwnerCarrying(inv) /\ inv.reqs # <<>>)
       => /\ inv.reqs[1] = "lookup"
          /\ Len(inv.reqs) = 2 => inv.lookup \in {"ok", "non2xx"}
                                   /\ inv.reqs[2] \in {"patch", "delete"}
          /\ inv.pc \in {"lookup", "patch", "delete"} => inv.hit = NoRow

\* C6 witness: two invocations for the same stored post have both passed the
\* ownership check (answered 2xx) and neither has written yet.
C6_BothPassedNeitherWrote ==
  \E g, h \in Handlers :
    /\ g # h
    /\ OwnerCarrying(hs[g]) /\ OwnerCarrying(hs[h])
    /\ hs[g].req.body.id = hs[h].req.body.id
    /\ hs[g].req.body.id \in DOMAIN table
    /\ hs[g].lookup = "ok" /\ hs[h].lookup = "ok"
    /\ hs[g].pc \in {"patch", "delete"} /\ hs[h].pc \in {"patch", "delete"}

\* C8: when the ownership lookup of a PUT or DELETE is answered non-2xx, the
\* invocation is not answered 403 and sends its PATCH or DELETE.
C8_FailedLookupIsUnowned ==
  \A h \in Handlers :
    LET inv == hs[h]
    IN (OwnerCarrying(inv) /\ inv.lookup = "non2xx")
       => /\ inv.status # 403
          /\ Len(inv.reqs) = 2
          /\ inv.reqs[2] = IF inv.req.method = "PUT" THEN "patch" ELSE "delete"

\* C8 witness: after a failed lookup a request carrying owner_id B has changed
\* or removed a post owned by A.
C8_ForeignWriteAfterFailedLookup ==
  \E h \in Handlers :
    /\ OwnerCarrying(hs[h])
    /\ hs[h].lookup = "non2xx"
    /\ hs[h].req.body.owner_id = OwnerB
    /\ hs[h].pc = "done"
    /\ hs[h].hit.owner_id = OwnerA


\* The storage answered the last request (insert, PATCH, DELETE or read) of
\* a finished invocation.
LastAnswered(inv) == inv.pc = "done" /\ inv.last \in {"ok", "non2xx"}

\* No storage request was sent twice.
NothingRetried(inv) ==
  \A i, j \in 1..Len(inv.reqs) : i # j => inv.reqs[i] # inv.reqs[j]

\* C14 as stated: in both blog functions a non-2xx status S of the storage is
\* the status of the response and no request is sent again; after a 2xx
\* answer the response is 201 for a create and 200 for an update, a delete
\* and a read.
C14_StatusPassedOn_201 ==
  \A h \in Handlers :
    LET inv == hs[h]
    IN /\ NothingRetried(inv)
       /\ LastAnswered(inv) =>
            inv.status = IF inv.last = "non2xx" THEN inv.upstream
                         ELSE IF inv.req.method = "POST" THEN 201 ELSE 200

\* C14 amended: as stated, but a create is answered 201 by the admin function
\* and 200 by blog-post.js.
C14_StatusPassedOn ==
  \A h \in Handlers :
    LET inv == hs[h]
    IN /\ NothingRetried(inv)
       /\ LastAnswered(inv) =>
            inv.status = IF inv.last = "non2xx" THEN inv.upstream
                         ELSE IF inv.req.method = "POST" /\ inv.req.ep = "admin"
                         THEN 201 ELSE 200

\* C14 witness: the storage refused a DELETE with 409 after the ownership
\* lookup had passed, and the handler answered 409 having sent each request
\* once.
C14_ConflictPassedOn ==
  \E h \in Handlers :
    /\ hs[h].pc = "done" /\ hs[h].req.method = "DELETE"
    /\ hs[h].last = "non2xx" /\ hs[h].upstream = UpstreamConflict
    /\ hs[h].status = UpstreamConflict
    /\ hs[h].reqs = <<"lookup", "delete">>

(***************************************************************************)
(* Properties of the signup endpoints.                                     *)
(***************************************************************************)
\* Two characters that are the same letter in either case, or equal.
SameLetter(a, b) ==
  a = b \/ \E i \in 1..Len(UpperChars) : {a, b} = {UpperChars[i], LowerChars[i]}

EqualIgnoringCase(s, t) ==
  Len(s) = Len(t) /\ \A i \in 1..Len(s) : SameLetter(s[i], t[i])

ContainsIgnoringCase(s, q) ==
  \E i \in 0..(Len(s) - Len(q)) : \A k \in 1..Len(q) : SameLetter(s[i + k], q[k])

NoCaseDuplicates ==
  \A l \in DedupLists : \A i, j \in 1..Len(files[l]) :
    i # j => ~EqualIgnoringCase(files[l][i].email, files[l][j].email)

\* A step in which a submission arrives: if its email is stored already
\* (ignoring case) it is answered 400 at once and no file changes.
DuplicateRefusedStep ==
  nreq' = nreq + 1 =>
    \E p \in Servers :
      /\ \A q \in Servers \ {p} : srv'[q] = srv[q]
      /\ srv[p].pc \in {"idle", "done"} /\ srv'[p].pc # "idle"
      /\ files' = files
      /\ LET r == srv'[p].req
         IN (r.list \in DedupLists
               /\ \E i \in 1..Len(files[r.list]) :
                    EqualIgnoringCase(files[r.list][i].email, r.email))
              => srv'[p].pc = "done" /\ srv'[p].status = 400

\* C5: in the waitlist, newsletter and early-access lists a submission whose
\* email equals, ignoring case, the email of a stored entry is answered 400
\* and the stored list is not modified; no list ever holds two entries whose
\* emails are equal ignoring case.
C5_NoDuplicateEmails == []NoCaseDuplicates /\ [][DuplicateRefusedStep]_vars

\* C5 witness: E1 is stored and the submission of E1 in upper case was
\* answered 400 as a duplicate.
C5_UpperCaseTwinRefused ==
  \E p \in Servers :
    /\ srv[p].pc = "done" /\ srv[p].status = 400 /\ srv[p].dupSeen
    /\ srv[p].req.email = E1Upper
    /\ \E i \in 1..Len(files[srv[p].req.list]) : files[srv[p].req.list][i].email = E1

SavedIsCreated ==
  \A p \in Servers :
    (srv[p].pc = "done" /\ srv[p].mail # 0) =>
      /\ srv[p].status = 201
      /\ mails[srv[p].mail].state \in {"disabled", "pending", "sent", "failed"}

\* A step in which a notification settles changes neither an answer nor a file.
MailSettlesApart ==
  (Len(mails') = Len(mails) /\ mails' # mails) => (files' = files /\ srv' = srv)

\* C9: if the entry was saved the response is 201 whether the notification
\* email succeeds, fails or is disabled; an email failure changes no response
\* status and removes no saved entry.
C9_EmailNeverChangesAnswer == []SavedIsCreated /\ [][MailSettlesApart]_vars

\* C9 witness: a request was answered 201, its notification failed and its
\* entry is in the file.
C9_Created_MailFailed ==
  \E p \in Servers :
    /\ srv[p].pc = "done" /\ srv[p].status = 201 /\ srv[p].mail # 0
    /\ mails[srv[p].mail].state = "failed"
    /\ \E i \in 1..Len(files[srv[p].req.list]) :
         files[srv[p].req.list][i].email = srv[p].req.email

\* The fields each endpoint requires.
RequiredFields(list) ==
  IF list = "early" THEN {"email", "name", "businessType", "location"}
  ELSE IF list = "applications"
  THEN {"farmName", "location", "farmSize", "specialties", "contactName", "phone",
        "email", "experience"}
  ELSE IF list = "chat" THEN {"sessionId", "userMessage"}
  ELSE {"email"}

\* local@domain.tld without whitespace.
WellFormedEmail(e) ==
  /\ \A i \in 1..Len(e) : e[i] \notin {" ", "\t", "\n", "\r"}
  /\ Cardinality({i \in 1..Len(e) : e[i] = "@"}) = 1
  /\ \E a, d \in 1..Len(e) :
       e[a] = "@" /\ e[d] = "." /\ 1 < a /\ a + 1 < d /\ d < Len(e)

FailsValidation(req) ==
  \/ \E f \in RequiredFields(req.list) : req[f] \in {Undef, Null, Empty}
  \/ req.list # "chat" /\ ~WellFormedEmail(req.email)

\* A request that fails validation is answered 400 and never reaches the write.
InvalidIsRefused ==
  \A p \in Servers :
    (srv[p].pc # "idle" /\ FailsValidation(srv[p].req)) =>
      srv[p].pc = "done" /\ srv[p].status = 400 /\ srv[p].mail = 0

\* The step in which a request arrives changes no file and sends no email.
ArrivalWritesNothing ==
  nreq' = nreq + 1 => (files' = files /\ mails' = mails)

\* C15: a file-backed POST (farm-applications, newsletter, waitlist,
\* early-access, chat messages) that fails validation, a required field being
\* missing or empty or the email not of the form local@domain.tld without
\* whitespace, is answered 400, writes nothing to a data file and triggers no
\* notification email.
C15_InvalidWritesNothing == []InvalidIsRefused /\ [][ArrivalWritesNothing]_vars

\* C15 witness: an application without a phone and a chat message without
\* text were both answered 400, and every file is empty and no email was sent.
C15_TwoRefusedNothingStored ==
  /\ \E p, q \in Servers :
       /\ srv[p].req.list = "applications" /\ srv[p].req.phone = Empty
       /\ srv[p].pc = "done" /\ srv[p].status = 400
       /\ srv[q].req.list = "chat" /\ srv[q].req.userMessage = Empty
       /\ srv[q].pc = "done" /\ srv[q].status = 400
  /\ \A l \in Lists : files[l] = <<>>
  /\ mails = <<>>

\* C16: in the farm-applications list a duplicate email is rejected: a POST
\* whose email equals the email of a stored application is refused, and the
\* list never contains two applications with the same email.
C16_NoDuplicateApplications ==
  \A i, j \in 1..Len(files["applications"]) :
    i # j => files["applications"][i].email # files["applications"][j].email

\* C20: ids are unique within each stored list, also among submissions
\* handled within the same clock millisecond: no two entries of the same list
\* have the same id.
C20_IdsUniquePerList ==
  \A l \in Lists : \A i, j \in 1..Len(files[l]) :
    i # j => idString(files[l][i].id) # idString(files[l][j].id)

\* The caller of browser c may change row f: the row is unowned or is the
\* signed-in user's own.
MayChange(c, f) ==
  farmsTable[f].owner_id = Null \/ (session[c] # Null /\ farmsTable[f].owner_id = session[c])

\* A row changes only in the update or delete of a call, and if that call
\* overlapped no other its caller may change the row.
FarmChangedByOwner ==
  \A f \in FarmIds :
    farmsTable'[f] # farmsTable[f] =>
      \E c \in Clients :
        /\ calls[c].pc = "mutate" /\ calls'[c].pc = "done" /\ calls[c].farmId = f
        /\ ~calls[c].overlapped => MayChange(c, f)

\* An updateFarm or deleteFarm that overlapped no other call and addresses a
\* stored row its caller may not change returns now.
StrangerReturns(c) ==
  /\ calls[c].pc # "done" /\ calls'[c].pc = "done" /\ ~calls'[c].overlapped
  /\ calls'[c].op # "get"
  /\ calls'[c].farmId \in FarmIds
  /\ farmsTable[calls'[c].farmId].present /\ ~MayChange(c, calls'[c].farmId)

StrangerAlwaysDenied ==
  \A c \in Clients :
    StrangerReturns(c) => calls'[c].error = "denied" /\ farmsTable' = farmsTable

StrangerRefused ==
  \A c \in Clients :
    StrangerReturns(c) =>
      /\ calls'[c].error \in {"denied", "fetch"}
      /\ calls'[c].lookup = "ok" => calls'[c].error = "denied"
      /\ farmsTable' = farmsTable

\* C19 as stated: for non-overlapping calls of updateFarm and deleteFarm the
\* row is updated or deleted only if its stored owner_id is null or equals
\* the current user's id; if the stored owner_id is non-null and the caller
\* is a different user or unauthenticated, the helper returns an 'Access
\* denied' error and the row is unchanged.
C19_StrangerAccessDenied == [][FarmChangedByOwner /\ StrangerAlwaysDenied]_vars

\* C19: for non-overlapping calls of updateFarm and deleteFarm the row is
\* updated or deleted only if its stored owner_id is null or equals the
\* current user's id; if the stored owner_id is non-null and the caller is a
\* different user or unauthenticated, the helper returns an error and the row
\* is unchanged: 'Access denied' when the select of owner_id succeeded, the
\* error of the select when it failed.
C19_StrangerRefused == [][FarmChangedByOwner /\ StrangerRefused]_vars

\* C19 witness: the owner A renamed the row, and afterwards a signed-out
\* browser's call on the same row was denied; the calls did not overlap.
C19_OwnerRenamedStrangerDenied ==
  \E c, d \in Clients :
    /\ session[c] = OwnerA /\ calls[c].pc = "done" /\ calls[c].op = "update"
    /\ calls[c].error = "none" /\ ~calls[c].overlapped
    /\ session[d] = Null /\ calls[d].pc = "done" /\ calls[d].error = "denied"
    /\ ~calls[d].overlapped
    /\ farmsTable[U1].present /\ farmsTable[U1].owner_id = OwnerA /\ farmsTable[U1].name = Oma

\* The shape of a version 4 UUID: 8-4-4-4-12 hexadecimal digits, the third
\* group beginning with 4 and the fourth with 8, 9, a or b.
HexDigits ==
  {"0","1","2","3","4","5","6","7","8","9","a","b","c","d","e","f",
   "A","B","C","D","E","F"}
UuidV4Shape(s) ==
  /\ Len(s) = 36
  /\ \A i \in 1..36 :
       IF i \in {9, 14, 19, 24} THEN s[i] = "-"
       ELSE IF i = 15 THEN s[i] = "4"
       ELSE IF i = 20 THEN s[i] \in {"8", "9", "a", "b", "A", "B"}
       ELSE s[i] \in HexDigits

\* A call with a malformed id has returned 'Invalid UUID format' and made no
\* request.
MalformedIdAsksNothing ==
  \A c \in Clients :
    (calls[c].pc # "idle" /\ ~UuidV4Shape(calls[c].farmId)) =>
      calls[c].pc = "done" /\ calls[c].error = "invalid" /\ calls[c].sent = <<>>

\* An update or delete whose ownership select failed has returned the
\* select's error and sent no update or delete.
FailedLookupStops ==
  \A c \in Clients :
    (calls[c].op # "get" /\ calls[c].lookup = "error") =>
      /\ calls[c].pc = "done" /\ calls[c].error = "fetch"
      /\ \A i \in 1..Len(calls[c].sent) : calls[c].sent[i] \notin {"update", "delete"}

\* C21: in updateFarm, deleteFarm and getFarmById a farm id that is not of
\* UUID v4 shape yields 'Invalid UUID format' with no storage or auth request
\* made; in updateFarm and deleteFarm, when the ownership lookup returns an
\* error the helper returns that error and issues no update or delete.
C21_BadIdAndFailedLookup == MalformedIdAsksNothing /\ FailedLookupStops

\* C21 witness: a getFarmById with a version 1 id returned 'Invalid UUID
\* format', and a signed-out browser's deleteFarm of A's row, whose select
\* failed, returned the select's error; the row is still there.
C21_BadIdRefusedLookupFailed ==
  \E c, d \in Clients :
    /\ calls[c].pc = "done" /\ calls[c].op = "get" /\ calls[c].farmId = BadVersion
    /\ calls[c].error = "invalid"
    /\ calls[d].pc = "done" /\ calls[d].op = "delete" /\ calls[d].lookup = "error"
    /\ calls[d].error = "fetch" /\ session[d] = Null
    /\ farmsTable[U1].present /\ farmsTable[U1].owner_id = OwnerA

\* C22: on the blog admin endpoint an authenticated PUT or DELETE whose id is
\* a well-formed UUID v4 that matches no stored post is answered 404 and
\* changes no stored post.
C22_UnknownPostNotFound ==
  \A h \in Handlers :
    LET inv == hs[h]
    IN (inv.pc = "done" /\ inv.req.ep = "admin" /\ inv.req.method \in {"PUT", "DELETE"}
          /\ UuidV4Shape(inv.req.body.id)
          /\ inv.last = "ok" /\ inv.hit = NoRow)
       => inv.status = 404

\* The columns a PUT with body b leaves in a row.
AfterPut(row, b, written) ==
  [row EXCEPT
     !.title = IF b.title \notin {Undef, Null, Empty} THEN b.title ELSE @,
     !.category = IF b.category \notin {Undef, Null, Empty} THEN b.category ELSE @,
     !.content = IF b.content \notin {Undef, Null, Empty} THEN b.content ELSE @,
     !.read_time = IF b.read_time # Undef THEN b.read_time ELSE @,
     !.updated_at = written]

\* A post that stays stored keeps its id, owner_id and created_at.
IdentityKept ==
  \A i \in DOMAIN table \cap DOMAIN table' :
    /\ table'[i].id = table[i].id
    /\ table'[i].owner_id = table[i].owner_id
    /\ table'[i].created_at = table[i].created_at

\* The step in which a PUT's PATCH is answered changes at most the post of
\* its id, and there only the columns the PUT supplies.
PutWritesItsColumns ==
  \A h \in Handlers :
    (hs[h].pc = "patch" /\ hs'[h].pc = "done") =>
      LET b == hs[h].req.body
      IN /\ DOMAIN table' = DOMAIN table
         /\ \A i \in DOMAIN table :
              IF i = b.id /\ table'[i] # table[i]
              THEN table'[i] = AfterPut(table[i], b, table'[i].updated_at)
              ELSE table'[i] = table[i]

\* C23: under any interleaving of POST, PUT and DELETE requests the id,
\* owner_id and created_at of a stored post never change after creation: a
\* PUT writes only updated_at plus those of title, category, content that are
\* supplied non-empty and read_time when supplied, and leaves every other
\* column and every other post unchanged.
C23_PutKeepsIdentity == [][IdentityKept /\ PutWritesItsColumns]_vars

\* C23 witness: a PUT of post U1 with a category, an empty content and a
\* read_time has been answered 200; the post has the new category and
\* read_time, its old title and content, and its id, owner and created_at.
C23_CategoryAndReadTimeWritten ==
  \E h \in Handlers :
    /\ hs[h].pc = "done" /\ hs[h].req.method = "PUT" /\ hs[h].status = 200
    /\ hs[h].req.body = Body(U1, OwnerA, Undef, T2, Empty, <<"5">>)
    /\ U1 \in DOMAIN table
    /\ table[U1] = [SeedRow EXCEPT !.category = T2, !.read_time = <<"5">>,
                                   !.updated_at = 2]

\* The Authorization header carries the configured admin secret.
BearerAccepted(auth, key) ==
  key # Undef /\ (auth = BearerPrefix \o key \/ auth = key)

\* C24: the checks of the blog admin endpoint run in a fixed order: OPTIONS
\* is answered 200 whatever the configuration and credentials; otherwise
\* missing storage configuration yields 500; otherwise a POST, PUT or DELETE
\* that fails the bearer check is answered 401 whatever its body (never 400),
\* and with no admin secret configured every POST, PUT and DELETE is answered
\* 401 whatever token is sent. None of these sends a storage request.
C24_ChecksInOrder ==
  \A h \in Handlers :
    LET inv == hs[h]
        m == inv.req.method
        answered(status) == inv.pc = "done" /\ inv.status = status /\ inv.reqs = <<>>
    IN (inv.pc # "idle" /\ inv.req.ep = "admin") =>
         IF m = "OPTIONS" THEN answered(200)
         ELSE IF ~env.supabase THEN answered(500)
         ELSE (m \in {"POST", "PUT", "DELETE"}
                 /\ ~BearerAccepted(inv.req.auth, env.adminKey)) => answered(401)

\* C24 witness: with the admin secret configured, a PUT carrying a wrong
\* token and an ill-formed id was answered 401, not 400, and sent nothing to
\* the storage.
C24_WrongTokenBadIdIs401 ==
  /\ env.supabase /\ env.adminKey = AdminKey
  /\ \E h \in Handlers :
       /\ hs[h].pc = "done" /\ hs[h].req.ep = "admin" /\ hs[h].req.method = "PUT"
       /\ hs[h].req.auth = BearerPrefix \o <<"z","z">>
       /\ hs[h].req.body.id = Short
       /\ hs[h].status = 401 /\ hs[h].reqs = <<>>

\* Requests answered 400 or 500 have no notification email.
RefusedHasNoMail ==
  \A p \in Servers :
    (srv[p].pc = "done" /\ srv[p].status \in {400, 500}) => srv[p].mail = 0

\* There are no more emails than 201 answers.
OneMailPerCreated ==
  Len(mails) <= accepted["waitlist"] + accepted["newsletter"] + accepted["early"]
                  + accepted["applications"]

\* A step that adds an email adds one, for the request whose entry it has
\* just written and answers 201.
MailFollowsSave ==
  Len(mails') # Len(mails) =>
    /\ Len(mails') = Len(mails) + 1
    /\ \E p \in Servers :
         /\ srv[p].pc = "save" /\ srv'[p].pc = "done" /\ srv'[p].status = 201
         /\ files'[srv[p].req.list] = srv[p].local
         /\ mails'[Len(mails')].list = srv[p].req.list
         /\ mails'[Len(mails')].email = srv[p].req.email

\* C25: in every signup or application handler a notification email is
\* attempted only after the new entry has been written to its file: none for
\* a request answered 400 or 500, and at most one per 201 response.
C25_MailOnlyAfterSave ==
  [](RefusedHasNoMail /\ OneMailPerCreated) /\ [][MailFollowsSave]_vars

\* C25 witness: one application was stored, answered 201 and its email sent;
\* the same application sent again could not be saved, was answered 500 and
\* has no email.
C25_OneSentOneFailedSave ==
  \E p, q \in Servers :
    /\ srv[p].pc = "done" /\ srv[p].status = 201 /\ srv[p].req.list = "applications"
    /\ srv[p].mail = 1 /\ Len(mails) = 1 /\ mails[1].state = "sent"
    /\ srv[q].pc = "done" /\ srv[q].status = 500 /\ srv[q].req.list = "applications"
    /\ srv[q].mail = 0

\* Process 1 answers a POST with 201 in this step.
Creates == srv[1].pc = "save" /\ srv'[1].pc = "done" /\ srv'[1].status = 201

\* The entry e is the one built from the request req.
EntryOf(req, e) ==
  IF req.list = "chat"
  THEN e.sessionId = req.sessionId /\ e.userMessage = req.userMessage
  ELSE e.email = req.email

\* Each file holds as many entries as its endpoint gave 201 answers.
OneEntryPerCreated == \A l \in Lists : Len(files[l]) = accepted[l]

\* A file changes only in the step that answers 201 for it, and then by the
\* request's entry appended at its end; a 201 answer always appends.
AppendOnCreated ==
  \A l \in Lists :
    /\ files'[l] # files[l] =>
         /\ Creates /\ srv[1].req.list = l
         /\ Len(files'[l]) = Len(files[l]) + 1
         /\ SubSeq(files'[l], 1, Len(files[l])) = files[l]
         /\ EntryOf(srv[1].req, files'[l][Len(files'[l])])
    /\ (Creates /\ srv[1].req.list = l) => files'[l] # files[l]

\* C26: within one server process each file-backed POST handler loads,
\* checks, appends and saves as one uninterrupted step, so for any sequence of
\* requests handled by one process, starting from an empty file, the stored
\* list holds exactly one entry per 201 response, in response order.
C26_OneEntryPerCreatedInOrder == []OneEntryPerCreated /\ [][AppendOnCreated]_vars

\* C26 witness: the waitlist signups of E1 and then E2 were answered 201 and
\* the file holds their entries in that order.
C26_TwoStoredInOrder ==
  /\ srv[1].pc = "done" /\ srv[1].status = 201 /\ srv[1].req.email = E2
  /\ accepted["waitlist"] = 2
  /\ Len(files["waitlist"]) = 2
  /\ files["waitlist"][1].email = E1 /\ files["waitlist"][2].email = E2

\* A request that is not answered 201 has no position.
RejectedHasNoPosition ==
  (srv[1].pc = "done" /\ srv[1].status # 201) => srv[1].position = 0

\* The position answered with a 201 of the waitlist or early-access endpoint
\* is the length of the list just written and the number of 201 answers so
\* far; an answer other than 201 leaves the list as it was.
PositionIsLength ==
  (srv[1].pc # "done" /\ srv'[1].pc = "done") =>
    LET l == srv'[1].req.list
    IN IF srv'[1].status = 201
       THEN l \in {"waitlist", "early"} =>
              /\ srv'[1].position = Len(files'[l])
              /\ srv'[1].position = accepted'[l]
              /\ Len(files'[l]) = Len(files[l]) + 1
       ELSE files' = files /\ accepted' = accepted

\* C27: the position returned by a successful waitlist or early-access
\* submission equals the length of the stored list right after the entry is
\* appended; from an empty list, successive successful submissions handled by
\* one process return 1, 2, 3, ... and rejected submissions consume none.
C27_PositionsCountUp == []RejectedHasNoPosition /\ [][PositionIsLength]_vars

\* C27 witness: of three waitlist submissions one was rejected; the last one
\* was answered 201 with position 2.
C27_SecondAfterRejected ==
  /\ nreq = 3 /\ accepted["waitlist"] = 2 /\ Len(files["waitlist"]) = 2
  /\ \A l \in Lists \ {"waitlist"} : files[l] = <<>>
  /\ srv[1].pc = "done" /\ srv[1].status = 201 /\ srv[1].req.list = "waitlist"
  /\ srv[1].position = 2

\* What the stats report when every total is the number of 201 answers and
\* every application is pending.
ExpectedStats ==
  [farmApplications |->
     [total |-> accepted["applications"], pending |-> accepted["applications"],
      approved |-> 0, rejected |-> 0],
   newsletter |-> [total |-> accepted["newsletter"]],
   waitlist |-> [total |-> accepted["waitlist"]],
   earlyAccess |-> [total |-> accepted["early"]]]

\* Between requests the stats of the files are the expected ones.
StatsAreCounts ==
  srv[1].pc \in {"idle", "done"} => stats(files) = ExpectedStats

\* A new answer of GET /api/admin/stats is the expected one.
StatsAnswered ==
  (replied' # replied /\ replied'.path = "stats") => replied'.body = ExpectedStats

OfSession(chatMessages, sessionId) ==
  {i \in 1..Len(chatMessages) : chatMessages[i].sessionId = sessionId}
IsHistory(body, chatMessages, sessionId) ==
  LET at == OfSession(chatMessages, sessionId)
  IN /\ body.count = Cardinality(at)
     /\ Len(body.messages) = Cardinality(at)
     /\ \A i \in at :
          body.messages[Cardinality({j \in at : j <= i})] = chatMessages[i]

\* The history of every session is the stored messages of that session.
HistoriesAreStored ==
  \A sessionId \in SessionParams :
    IsHistory(chatHistory(files["chat"], sessionId), files["chat"], sessionId)

\* A new answer of GET /api/chat/messages/:sessionId is the history of its
\* session, and storing a message keeps the messages stored before.
HistoryAnswered ==
  /\ (replied' # replied /\ replied'.path = "chat") =>
       IsHistory(replied'.body, files["chat"], replied'.sessionId)
  /\ SubSeq(files'["chat"], 1, Len(files["chat"])) = files["chat"]

\* C29: after any sequence of chat POSTs, GET /api/chat/messages/:sessionId
\* returns exactly the stored messages whose sessionId equals the path
\* parameter, in the order they were stored, with count their number; a
\* message of one session is never returned for another, and storing a
\* message leaves the messages stored before unchanged.
C29_HistoryOfSession == []HistoriesAreStored /\ [][HistoryAnswered]_vars

\* C29 witness: two sessions have one stored message each, and the history
\* asked for one of them holds that session's message only.
C29_OneOfTwoSessions ==
  /\ Len(files["chat"]) = 2
  /\ files["chat"][1].sessionId = Oma /\ files["chat"][2].sessionId = N1
  /\ replied.path = "chat" /\ replied.sessionId = N1
  /\ replied.body.count = 1
  /\ replied.body.messages = <<files["chat"][2]>>

\* The table holds at most one copy of the sample farms.
AtMostOneCopy ==
  tableExists(seedFarms) =>
    \A k \in 1..Len(sampleFarms) :
      Cardinality({i \in 1..Len(seedFarms) : seedFarms[i] = sampleFarms[k]}) <= 1

\* The script inserts only into a table that exists and is empty.
InsertsIntoEmptyOnly ==
  (run.pc = "insert" /\ seedFarms' # seedFarms) => seedFarms = <<>>

\* C30: the farm seeding script is idempotent when runs do not overlap:
\* setupFarms inserts the sample farms only if the farms table exists and is
\* observed empty; if the table is missing or holds at least one row it
\* inserts nothing, so after any number of sequential runs the table holds at
\* most one copy of the sample set.
C30_SeedsOnce == []AtMostOneCopy /\ [][InsertsIntoEmptyOnly]_vars

(***************************************************************************)
(* Properties of the search.                                               *)
(***************************************************************************)
\* The positions <<category, item>> of the produce the query q names.
NamedProduce(q) ==
  LET cats == produceData.categories
  IN {ci \in UNION {{<<c, i>> : i \in 1..Len(cats[c].items)} : c \in 1..Len(cats)} :
        \/ ContainsIgnoringCase(cats[ci[1]].items[ci[2]].name, q)
        \/ ContainsIgnoringCase(cats[ci[1]].name, q)}

\* The positions of the farms the query q names.
NamedFarms(q) ==
  LET fs == farmsData.farms
  IN {f \in 1..Len(fs) :
        \/ ContainsIgnoringCase(fs[f].name, q)
        \/ ContainsIgnoringCase(fs[f].location, q)
        \/ \E k \in 1..Len(fs[f].specialties) :
             ContainsIgnoringCase(fs[f].specialties[k], q)}

\* C10: GET /api/search?q=Q with at least two characters returns exactly the
\* produce items whose name or category name contains Q ignoring case (with
\* their category's name and id) and exactly the farms whose name, location
\* or a specialty contains Q ignoring case, count being the sum of the two
\* lengths; a missing q or one shorter than two characters is answered 400.
C10_SearchResults ==
  searched.asked =>
    LET q == searched.query
        cats == produceData.categories
        short == q = Undef \/ Len(q) < 2
    IN /\ searched.status = IF short THEN 400 ELSE 200
       /\ ~short =>
            /\ Len(searched.produce) = Cardinality(NamedProduce(q))
            /\ Range(searched.produce) =
                 {[id |-> cats[ci[1]].items[ci[2]].id,
                   name |-> cats[ci[1]].items[ci[2]].name,
                   season |-> cats[ci[1]].items[ci[2]].season,
                   category |-> cats[ci[1]].name,
                   categoryId |-> cats[ci[1]].id] : ci \in NamedProduce(q)}
            /\ Len(searched.farms) = Cardinality(NamedFarms(q))
            /\ Range(searched.farms) = {farmsData.farms[f] : f \in NamedFarms(q)}
            /\ searched.count = Len(searched.produce) + Len(searched.farms)

\* C10 witness: a query in upper case was answered with an item found by its
\* category's name only and a farm found by a specialty only.
C10_FoundByCategoryAndSpecialty ==
  /\ searched.asked /\ searched.status = 200
  /\ searched.query = <<"M","A">>
  /\ \E k \in 1..Len(searched.produce) :
       ~ContainsIgnoringCase(searched.produce[k].name, searched.query)
  /\ \E k \in 1..Len(searched.farms) :
       /\ ~ContainsIgnoringCase(searched.farms[k].name, searched.query)
       /\ ~ContainsIgnoringCase(searched.farms[k].location, searched.query)


(***************************************************************************)
(* Properties of the catalog GETs.                                         *)
(***************************************************************************)
\* All positions <<category, item>> of the produce catalog.
ItemPositions ==
  LET cats == produceData.categories
  IN UNION {{<<c, i>> : i \in 1..Len(cats[c].items)} : c \in 1..Len(cats)}

\* The item at a position with the name and id of the category it is in.
Annotated(ci) ==
  LET cat == produceData.categories[ci[1]]
  IN [id |-> cat.items[ci[2]].id, name |-> cat.items[ci[2]].name,
      season |-> cat.items[ci[2]].season,
      category |-> cat.name, categoryId |-> cat.id]

\* Position a comes before position b in catalog order.
Before(a, b) == a[1] < b[1] \/ (a[1] = b[1] /\ a[2] < b[2])

\* C11: for every id of an item of the catalog, GET /api/produce/:id answers
\* 200 with the fields of the first item of that id in catalog order, category
\* and categoryId being the name and id of the category that holds it.
C11_ItemWithItsCategory ==
  (got.asked /\ got.route = "item") =>
    LET held == {ci \in ItemPositions : Annotated(ci).id = got.params[3]}
    IN held # {} =>
         LET first == CHOOSE a \in held : \A b \in held \ {a} : Before(a, b)
         IN got.status = 200 /\ got.body = <<Annotated(first)>>

\* C11 witness: the id asked for is in both categories and the answer names
\* the first category.
C11_FoundInFirstOfTwo ==
  /\ got.asked /\ got.route = "item" /\ got.status = 200
  /\ \E a, b \in ItemPositions :
       /\ a[1] # b[1]
       /\ Annotated(a).id = got.params[3] /\ Annotated(b).id = got.params[3]
  /\ got.body[1].categoryId = produceData.categories[1].id

\* C13: a lookup of an item, category or farm id that is not in the loaded
\* data is answered 404, and a path /api/produce/category/X is served by the
\* category route, a path /api/produce/X by the item route.
C13_UnknownIdIs404 ==
  (got.asked /\ got.route # "produce") =>
    LET path == got.params
        last == path[Len(path)]
    IN /\ got.route =
            IF Len(path) = 4 /\ SubSeq(path, 1, 3) = <<SegApi, SegProduce, SegCategory>>
            THEN "category"
            ELSE IF Len(path) = 3 /\ SubSeq(path, 1, 2) = <<SegApi, SegProduce>>
            THEN "item"
            ELSE IF Len(path) = 3 /\ SubSeq(path, 1, 2) = <<SegApi, SegFarms>>
            THEN "farm"
            ELSE "none"
       /\ (got.route = "category"
             /\ \A c \in 1..Len(produceData.categories) :
                  produceData.categories[c].id # last) => got.status = 404
       /\ (got.route = "item"
             /\ \A ci \in ItemPositions : Annotated(ci).id # last) => got.status = 404
       /\ (got.route = "farm"
             /\ \A f \in 1..Len(farmsData.farms) : farmsData.farms[f].id # last)
            => got.status = 404

\* C13 witness: the id of an item asked for under /api/produce/category/ was
\* looked up as a category and answered 404.
C13_ItemIdIsNoCategory ==
  /\ got.asked /\ got.route = "category" /\ got.status = 404
  /\ \E ci \in ItemPositions : Annotated(ci).id = got.params[4]

\* The answer lists exactly the items at the positions in `wanted`.
ListsExactly(wanted) ==
  /\ got.status = 200
  /\ Len(got.body.items) = Cardinality(wanted)
  /\ Range(got.body.items) = {Annotated(ci) : ci \in wanted}
  /\ got.body.count = Len(got.body.items)

\* The positions of the items whose category the category parameter selects
\* by equality of the id (every position when the parameter is absent or empty).
InCategory(category) ==
  {ci \in ItemPositions :
     ~Truthy(category) \/ produceData.categories[ci[1]].id = category}

\* C17 as stated: GET /api/produce?category=C returns exactly the items of
\* the categories whose id contains C ignoring case, with count their number,
\* and all items when there is no category parameter.
C17_CategoryBySubstring ==
  (got.asked /\ got.route = "produce" /\ ~Truthy(got.params.season)) =>
    ListsExactly({ci \in ItemPositions :
                    \/ ~Truthy(got.params.category)
                    \/ ContainsIgnoringCase(produceData.categories[ci[1]].id,
                                            got.params.category)})

\* C17 amended: GET /api/produce?category=C returns exactly the items of the
\* categories whose id equals C, each with its category's name and id, with
\* count their number, and all items when there is no category parameter.
C17_CategoryById ==
  (got.asked /\ got.route = "produce" /\ ~Truthy(got.params.season)) =>
    ListsExactly(InCategory(got.params.category))

\* C17 witness: a category parameter selected the items of one category and
\* left out those of the other.
C17_OneCategoryOfTwo ==
  /\ got.asked /\ got.route = "produce" /\ ~Truthy(got.params.season)
  /\ got.params.category = <<"c","1">>
  /\ got.body.count = 2
  /\ Cardinality(ItemPositions) = 3

\* C18 as stated: GET /api/produce?season=S returns exactly the items, of the
\* categories selected, whose season contains S ignoring case.
C18_SeasonBySubstring ==
  (got.asked /\ got.route = "produce" /\ Truthy(got.params.season)) =>
    ListsExactly({ci \in InCategory(got.params.category) :
                    ContainsIgnoringCase(Annotated(ci).season, got.params.season)})

\* C18 amended: GET /api/produce?season=S returns exactly the items, of the
\* categories selected, whose season contains S ignoring case or is
\* "year-round" in any case.
C18_SeasonOrYearRound ==
  (got.asked /\ got.route = "produce" /\ Truthy(got.params.season)) =>
    ListsExactly({ci \in InCategory(got.params.category) :
                    \/ ContainsIgnoringCase(Annotated(ci).season, got.params.season)
                    \/ EqualIgnoringCase(Annotated(ci).season, YearRound)})

\* C18 witness: season "may" returned an item in season May-Aug and an item
\* in season all year, and left out an item in season Nov-Mar.
C18_MayKeepsYearRound ==
  /\ got.asked /\ got.route = "produce"
  /\ got.params.season = <<"m","a","y">> /\ ~Truthy(got.params.category)
  /\ \E k \in 1..Len(got.body.items) : got.body.items[k].season = YearRound
  /\ \E k \in 1..Len(got.body.items) : got.body.items[k].season = MayAug
  /\ \E ci \in ItemPositions : Annotated(ci).season = NovMar
  /\ \A k \in 1..Len(got.body.items) : got.body.items[k].season # NovMar


(***************************************************************************)
(* Properties of the CSV export.                                           *)
(***************************************************************************)
\* A reader of CSV text: fields are separated by commas and records by
\* newlines; a comma or newline after an odd number of double quotes is
\* inside a quoted field and separates nothing; a field enclosed in double
\* quotes stands for its inside with every doubled double quote read as one.
SeparatorsAt(text, ch) ==
  {i \in 1..Len(text) :
     /\ text[i] = ch
     /\ Cardinality({j \in 1..(i - 1) : text[j] = DQuote}) % 2 = 0}

\* The pieces of text between the separators ch that are outside quotes.
SplitOutsideQuotes(text, ch) ==
  LET seps == SeparatorsAt(text, ch)
      nth(k) == IF k = 0 THEN 0
                ELSE IF k > Cardinality(seps) THEN Len(text) + 1
                ELSE CHOOSE x \in seps : Cardinality({y \in seps : y < x}) = k - 1
  IN [k \in 1..(Cardinality(seps) + 1) |-> SubSeq(text, nth(k - 1) + 1, nth(k) - 1)]

RECURSIVE Undoubled(_)
Undoubled(str) ==
  IF str = <<>> THEN <<>>
  ELSE IF Len(str) >= 2 /\ str[1] = DQuote /\ str[2] = DQuote
  THEN <<DQuote>> \o Undoubled(SubSeq(str, 3, Len(str)))
  ELSE <<Head(str)>> \o Undoubled(Tail(str))

FieldValue(field) ==
  IF Len(field) >= 2 /\ field[1] = DQuote /\ field[Len(field)] = DQuote
  THEN Undoubled(SubSeq(field, 2, Len(field) - 1))
  ELSE field

ReadCsv(text) ==
  LET lines == SplitOutsideQuotes(text, Newline)
  IN [k \in 1..Len(lines) |->
        LET fields == SplitOutsideQuotes(lines[k], Comma)
        IN [f \in 1..Len(fields) |-> FieldValue(fields[f])]]

WaitlistColumns ==
  <<Hid, Hname, Hemail, HbusinessType, Hlocation, Hphone, Hnotes,
    HnewsletterConsent, Hposition, HcreatedAt>>

\* C12: the waitlist export is CSV text of one header row followed by one
\* record per stored entry in stored order, every record with as many fields
\* as the header; a value with a comma or a newline is enclosed in double
\* quotes with its double quotes doubled, so that it reads back as one field
\* equal to the value.
C12_WaitlistCsv ==
  (exported.asked /\ exported.type = "waitlist") =>
    LET rows == files["waitlist"]
        records == ReadCsv(exported.text)
    IN /\ exported.status = 200
       /\ Len(records) = 1 + Len(rows)
       /\ records[1] = WaitlistColumns
       /\ \A k \in 1..Len(records) : Len(records[k]) = Len(WaitlistColumns)
       /\ \A k \in 1..Len(rows) :
            /\ records[k + 1][1] = idString(rows[k].id)
            /\ records[k + 1][3] = rows[k].email
            /\ \A v \in {rows[k].name, rows[k].email, rows[k].location} :
                 (Comma \in Range(v) \/ Newline \in Range(v)) =>
                   /\ v \in Range(records[k + 1])
                   /\ \E a \in 1..Len(exported.text), b \in 1..Len(exported.text) :
                        /\ b - a = Len(doubleQuotes(v)) + 1
                        /\ exported.text[a] = DQuote /\ exported.text[b] = DQuote
                        /\ SubSeq(exported.text, a + 1, b - 1) = doubleQuotes(v)

\* C12 witness: three entries were exported, among them a name with a
\* newline, an email with a comma and a location with double quotes and a comma.
C12_ExportedSpecialValues ==
  /\ exported.asked /\ exported.type = "waitlist" /\ exported.status = 200
  /\ Len(files["waitlist"]) = 3
  /\ files["waitlist"][1].email = EComma
  /\ files["waitlist"][1].location = WithQuoteAndComma
  /\ files["waitlist"][2].name = WithNewline

=============================================================================
